---- MODULE Spec2Model ----
(***************************************************************************)
(* A model of pdfClient::Page (pdf/framework/libs/pdfClient/page.cc): the  *)
(* page-object store, the annotation store, the invalid-rectangle tracker  *)
(* and the text search, each over the backing pdfium page it wraps.        *)
(***************************************************************************)
EXTENDS Integers, Sequences, FiniteSets, TLC

VARIABLES
    fpdf_objects,    \* the page objects of the backing pdfium page (page_), in order
    page_objects_,   \* Page::page_objects_: the cache of the page-object store
    fpdf_annots,     \* the annotations of the backing pdfium page, in order
    annotations_,    \* Page::annotations_: the cache of the annotation store
    invalid_rect_,   \* Page::invalid_rect_: the accumulated dirty rectangle, device space
    covered,         \* history: the smallest rectangle around the non-empty device
                     \* images notified since the tracker was last reset
    text,            \* the characters of the text page (text_page_), index 0 first
    query,           \* FindMatchesUtf8: the normalized query
    page_start,      \* FindMatchesUtf8: where the next FindMatch starts
    page_stop,       \* FindMatchesUtf8: where every FindMatch stops
    match,           \* FindMatchesUtf8: the TextRange FindMatch writes, <<first, second>>
    matches,         \* FindMatchesUtf8: the vector of TextRange the caller passed
    matches_given,   \* FindMatchesUtf8: the caller passed a vector (matches != nullptr)
    num_matches,     \* FindMatchesUtf8: the count it returns
    searching,       \* FindMatchesUtf8: its loop has not ended
    page_,           \* Page::page_ holds a page: FPDF_LoadPage did not return null
    text_loadable,   \* FPDFText_LoadPage gives a text page for page_
    text_page_,      \* Page::text_page_ holds a text page
    first_printable_char_index_,   \* Page::first_printable_char_index_
    last_printable_char_index_,    \* Page::last_printable_char_index_
    ensured,         \* history: what the last call did in EnsureTextPageInitialized
                     \* (load: it called FPDFText_LoadPage, scan: it scanned for the
                     \* printable range) and failed: a load has failed on this page
    device_matrix_,  \* PageObject::device_matrix_ of a path object
    fpdf_matrix,     \* the matrix of the backing pdfium object of that path object
    page_point,      \* the Point_f last passed to PageToDevice or returned by
                     \* DeviceToPage, page space, in units of 1/Scale point
    device_point,    \* the Point_f last returned by PageToDevice or passed to
                     \* DeviceToPage, device space, in units of 1/Scale pixel
    start_boundary,  \* SelectWordAt: the SelectionBoundary *start of the caller
    stop_boundary,   \* SelectWordAt: the SelectionBoundary *stop of the caller
    char_boxes,      \* the glyph box of each character of the text page
                     \* (FPDFText_GetCharBox), page space, index 0 first
    rects,           \* the vector<Rectangle_i> the caller passed for the bounds
    match_to_rect,   \* BoundsOfMatchesUtf8: the vector<int> match_to_rect it fills
    char_indexes,    \* BoundsOfMatchesUtf8: the vector<int> char_indexes it fills
    char_origins,    \* the origin of each character of the text page
                     \* (FPDFText_GetCharOrigin), page space, index 0 first
    boundary_out,    \* the SelectionBoundary GetBoundaryAtIndex or GetBoundaryAtPoint
                     \* returned or ConstrainBoundary left in *boundary
    boundary_given,  \* history: the index and the point that call was given
    calls,           \* how many calls have been made on the page (SpecStores), how
                     \* many searches have been started on it (SpecText)
    last             \* the last call made on the page: its name, arguments and result

vars == <<fpdf_objects, page_objects_, fpdf_annots, annotations_,
          invalid_rect_, covered, text, query, page_start, page_stop, match,
          matches, matches_given, num_matches, searching,
          page_, text_loadable, text_page_, first_printable_char_index_,
          last_printable_char_index_, ensured, start_boundary, stop_boundary,
          device_matrix_, fpdf_matrix, page_point, device_point,
          char_boxes, rects, match_to_rect, char_indexes,
          char_origins, boundary_out, boundary_given, calls, last>>

objectVars == <<fpdf_objects, page_objects_>>
annotVars == <<fpdf_annots, annotations_>>

(***************************************************************************)
(* Bounds of the model.                                                    *)
(***************************************************************************)
MaxObjects == 2      \* AddPageObject is not called beyond this many backing objects
MaxAnnots == 2       \* AddPageAnnotation is not called beyond this many backing annotations
MaxCalls == 2        \* SpecStores follows a page for this many calls
\* The attribute payloads callers pass.
Attrs == {0, 1}

(***************************************************************************)
(* Page objects.                                                           *)
(*                                                                         *)
(* A PageObject of the caller or of the cache is [type, attr]: its Type    *)
(* and its payload (colours, stroke width, bitmap, text ...).  The empty   *)
(* unique_ptr of a cache slot is Null.  A caller's object also carries     *)
(* "complete": a path with at least one segment, an image with a bitmap, a *)
(* text with a non-empty string in a standard font.                        *)
(*                                                                         *)
(* A backing object (FPDF_PAGEOBJECT) is [type, attr, populates]; "Form"   *)
(* stands for the pdfium types the store does not know (form, shading).    *)
(* "populates" is whether PopulateFromFPDFInstance succeeds on it: a path  *)
(* without bezier segments, an image whose bitmap can be read, a text in a *)
(* font of font_mapper.                                                    *)
(***************************************************************************)
Null == [type |-> "Null", attr |-> 0]

ObjectTypes == {"Path", "Image", "Text"}

CallerObjects == [type : ObjectTypes, attr : Attrs, complete : BOOLEAN]

NoObject == [type |-> "None", attr |-> 0, populates |-> FALSE]

\* The call record of a page on which nothing has been called yet.
(***************************************************************************)
(* Integer rectangles (Rectangle_i and the helpers of rect.h).             *)
(***************************************************************************)
Min(a, b) == IF a < b THEN a ELSE b
Max(a, b) == IF a > b THEN a ELSE b

\* IntRect(left, top, right, bottom)
IntRect(left, top, right, bottom) ==
    [left |-> left, top |-> top, right |-> right, bottom |-> bottom]

\* IntRect(p1, p2): the rectangle spanned by two points.
IntRectOfPoints(p1, p2) ==
    IntRect(Min(p1.x, p2.x), Min(p1.y, p2.y), Max(p1.x, p2.x), Max(p1.y, p2.y))

\* IsEmpty(rect): no width or no height, a right (bottom) edge at or before
\* the left (top) one included.
IsEmpty(rect) == rect.right - rect.left <= 0 \/ rect.bottom - rect.top <= 0

kEmptyIntRectangle == IntRect(0, 0, 0, 0)

\* Union(lhs, rhs): the smallest rectangle around the corners of both.
Union(lhs, rhs) ==
    IntRect(Min(lhs.left, rhs.left), Min(lhs.top, rhs.top),
            Max(lhs.right, rhs.right), Max(lhs.bottom, rhs.bottom))

\* Intersect(lhs, rhs): the common part, the empty rectangle when there is none.
Intersect(lhs, rhs) ==
    LET output == IntRect(Max(lhs.left, rhs.left), Max(lhs.top, rhs.top),
                          Min(lhs.right, rhs.right), Min(lhs.bottom, rhs.bottom))
    IN IF IsEmpty(output) THEN IntRect(0, 0, 0, 0) ELSE output

NoCall ==
    [op |-> "none", index |-> 0, ok |-> TRUE, ret |-> 0, refetch |-> FALSE,
     rect |-> kEmptyIntRectangle]

\* The record of a call: ok is its success (a true result, an index other than
\* the sentinel -1), ret the index an add returned.
Call(op, index, ok, ret, refetch) ==
    [op |-> op, index |-> index, ok |-> ok, ret |-> ret, refetch |-> refetch,
     rect |-> kEmptyIntRectangle]

\* The record of a call of the invalidation tracker: ok is its boolean result
\* (NotifyInvalidRect: the rectangle passed the entry check), rect the
\* rectangle it returned.
RectCall(op, ok, rect) ==
    [op |-> op, index |-> 0, ok |-> ok, ret |-> 0, refetch |-> FALSE, rect |-> rect]

(***************************************************************************)
(* Sequence helpers (std::vector operations of the two caches).            *)
(***************************************************************************)
\* vector::erase(begin() + index), index counted from 0 and inside the vector.
EraseAt(seq, index) ==
    [k \in 1..(Len(seq) - 1) |-> IF k <= index THEN seq[k] ELSE seq[k + 1]]

\* vector::resize(n): keeps the first n elements and pads with empty pointers.
Resize(seq, n) ==
    [k \in 1..n |-> IF k <= Len(seq) THEN seq[k] ELSE Null]

(***************************************************************************)
(* The page-object subclasses (path_object.cc, image_object.cc,            *)
(* text_object.cc).                                                        *)
(***************************************************************************)
\* UpdateFPDFInstance succeeds on backing object b for caller object o: the
\* backing object has o's type, an image has a bitmap to set and a text a
\* non-empty string to set; a path's segments are not consulted.
UpdateFPDFInstanceOk(b, o) ==
    /\ b.type = o.type
    /\ (o.type \in {"Image", "Text"} => o.complete)

\* The backing object after a successful UpdateFPDFInstance: o's payload is
\* written into it; an image gets o's bitmap, which is then readable.
UpdateFPDFInstance(b, o) ==
    [type |-> b.type, attr |-> o.attr,
     populates |-> IF b.type = "Image" THEN TRUE ELSE b.populates]

\* CreateFPDFInstance: a new backing object of o's type carrying o's payload,
\* or NoObject (a null ScopedFPDFPageObject) when o has no segments, no
\* bitmap, or no loadable font.
CreateFPDFInstance(o) ==
    IF o.complete
        THEN [type |-> o.type, attr |-> o.attr, populates |-> TRUE]
        ELSE NoObject

\* What PopulatePageObjects builds for one backing object: a fresh object of
\* the matching subclass filled by PopulateFromFPDFInstance, or Null when the
\* type is unknown or the population fails.
PopulateFromFPDFInstance(b) ==
    IF b.type \in ObjectTypes /\ b.populates
        THEN [type |-> b.type, attr |-> b.attr]
        ELSE Null

\* A population that leaves out the objects that do not populate.
PopulatePageObjectsDroppingFailed(cache, objects, refetch) ==
    IF ~refetch /\ cache # <<>>
        THEN cache
        ELSE LET populated == [k \in 1..Len(objects) |-> PopulateFromFPDFInstance(objects[k])]
             IN SelectSeq(populated, LAMBDA slot : slot # Null)

(***************************************************************************)
(* Page::PopulatePageObjects: the cache after the call.  It returns at     *)
(* once on a non-empty cache unless refetch is asked; otherwise it resizes *)
(* the cache to the backing count and assigns a slot only when its object  *)
(* was populated, so a slot whose object does not populate keeps what the  *)
(* resized cache held there.                                               *)
(***************************************************************************)
PopulatePageObjects(cache, objects, refetch) ==
    IF ~refetch /\ cache # <<>>
        THEN cache
        ELSE LET resized == Resize(cache, Len(objects))
             IN [k \in 1..Len(objects) |->
                    IF PopulateFromFPDFInstance(objects[k]) # Null
                        THEN PopulateFromFPDFInstance(objects[k])
                        ELSE resized[k]]

\* The object a caller hands over, as the cache stores it.
AsCached(o) == [type |-> o.type, attr |-> o.attr]

(***************************************************************************)
(* The operations of the page-object store.                                *)
(***************************************************************************)
\* Page::GetPageObjects(refetch)
GetPageObjects(refetch) ==
    /\ page_objects_' = PopulatePageObjects(page_objects_, fpdf_objects, refetch)
    /\ UNCHANGED fpdf_objects
    /\ last' = Call("GetPageObjects", 0, TRUE, 0, refetch)

\* AddPageObject returning the object count instead of the last index.
AddPageObjectReturnsCount(o) ==
    LET inst == CreateFPDFInstance(o)
    IN IF inst = NoObject
         THEN /\ UNCHANGED <<fpdf_objects, page_objects_>>
              /\ last' = Call("AddPageObject", 0, FALSE, -1, FALSE)
         ELSE /\ Len(fpdf_objects) < MaxObjects
              /\ fpdf_objects' = Append(fpdf_objects, inst)
              /\ page_objects_' = IF page_objects_ # <<>>
                                     THEN Append(page_objects_, AsCached(o))
                                     ELSE page_objects_
              /\ last' = Call("AddPageObject", 0, TRUE, Len(fpdf_objects) + 1, FALSE)

\* AddPageObject caching the object before its creation is known to succeed.
AddPageObjectCachesFirst(o) ==
    LET inst == CreateFPDFInstance(o)
    IN IF inst = NoObject
         THEN /\ UNCHANGED fpdf_objects
              /\ page_objects_' = Append(page_objects_, AsCached(o))
              /\ last' = Call("AddPageObject", 0, FALSE, -1, FALSE)
         ELSE /\ Len(fpdf_objects) < MaxObjects
              /\ fpdf_objects' = Append(fpdf_objects, inst)
              /\ page_objects_' = IF page_objects_ # <<>>
                                     THEN Append(page_objects_, AsCached(o))
                                     ELSE page_objects_
              /\ last' = Call("AddPageObject", 0, TRUE, Len(fpdf_objects), FALSE)

\* Page::AddPageObject(pageObject)
AddPageObject(o) ==
    LET inst == CreateFPDFInstance(o)
    IN IF inst = NoObject
         THEN /\ UNCHANGED <<fpdf_objects, page_objects_>>
              /\ last' = Call("AddPageObject", 0, FALSE, -1, FALSE)
         ELSE /\ Len(fpdf_objects) < MaxObjects
              /\ fpdf_objects' = Append(fpdf_objects, inst)
              /\ page_objects_' = IF page_objects_ # <<>>
                                     THEN Append(page_objects_, AsCached(o))
                                     ELSE page_objects_
              /\ last' = Call("AddPageObject", 0, TRUE, Len(fpdf_objects), FALSE)

\* RemovePageObject leaving the cache as it was.
RemovePageObjectKeepsCache(index) ==
    IF index < 0 \/ index >= Len(fpdf_objects)
        THEN /\ UNCHANGED <<fpdf_objects, page_objects_>>
             /\ last' = Call("RemovePageObject", index, FALSE, 0, FALSE)
        ELSE /\ fpdf_objects' = EraseAt(fpdf_objects, index)
             /\ UNCHANGED page_objects_
             /\ last' = Call("RemovePageObject", index, TRUE, 0, FALSE)

\* Page::RemovePageObject(index).  FPDFPage_GetObject gives null for an index
\* outside the page and FPDFPage_RemoveObject refuses null.
RemovePageObject(index) ==
    IF index < 0 \/ index >= Len(fpdf_objects)
        THEN /\ UNCHANGED <<fpdf_objects, page_objects_>>
             /\ last' = Call("RemovePageObject", index, FALSE, 0, FALSE)
        ELSE /\ fpdf_objects' = EraseAt(fpdf_objects, index)
             /\ IF page_objects_ = <<>>
                   THEN UNCHANGED page_objects_
                   ELSE IF index < Len(page_objects_)
                          THEN page_objects_' = EraseAt(page_objects_, index)
                          \* erase past the end: undefined behaviour
                          ELSE page_objects_' \in {page_objects_, <<>>}
             /\ last' = Call("RemovePageObject", index, TRUE, 0, FALSE)

\* UpdatePageObject writing the cached slot before the backing update is
\* known to succeed.
UpdatePageObjectCachesFirst(index, o) ==
    IF index < 0 \/ index >= Len(fpdf_objects)
        THEN /\ UNCHANGED <<fpdf_objects, page_objects_>>
             /\ last' = Call("UpdatePageObject", index, FALSE, 0, FALSE)
        ELSE /\ page_objects_' = IF index < Len(page_objects_)
                                    THEN [page_objects_ EXCEPT ![index + 1] = AsCached(o)]
                                    ELSE page_objects_
             /\ IF ~UpdateFPDFInstanceOk(fpdf_objects[index + 1], o)
                   THEN /\ UNCHANGED fpdf_objects
                        /\ last' = Call("UpdatePageObject", index, FALSE, 0, FALSE)
                   ELSE /\ fpdf_objects' = [fpdf_objects EXCEPT
                               ![index + 1] = UpdateFPDFInstance(fpdf_objects[index + 1], o)]
                        /\ last' = Call("UpdatePageObject", index, TRUE, 0, FALSE)

\* UpdatePageObject refreshing the cached slot after a successful update.
UpdatePageObjectRefreshesCache(index, o) ==
    IF index < 0 \/ index >= Len(fpdf_objects)
        THEN /\ UNCHANGED <<fpdf_objects, page_objects_>>
             /\ last' = Call("UpdatePageObject", index, FALSE, 0, FALSE)
        ELSE IF ~UpdateFPDFInstanceOk(fpdf_objects[index + 1], o)
            THEN /\ UNCHANGED <<fpdf_objects, page_objects_>>
                 /\ last' = Call("UpdatePageObject", index, FALSE, 0, FALSE)
            ELSE /\ fpdf_objects' = [fpdf_objects EXCEPT
                        ![index + 1] = UpdateFPDFInstance(fpdf_objects[index + 1], o)]
                 /\ page_objects_' = IF index < Len(page_objects_)
                                        THEN [page_objects_ EXCEPT ![index + 1] = AsCached(o)]
                                        ELSE page_objects_
                 /\ last' = Call("UpdatePageObject", index, TRUE, 0, FALSE)

\* Page::UpdatePageObject(index, pageObject)
UpdatePageObject(index, o) ==
    IF index < 0 \/ index >= Len(fpdf_objects)
        THEN /\ UNCHANGED <<fpdf_objects, page_objects_>>
             /\ last' = Call("UpdatePageObject", index, FALSE, 0, FALSE)
        ELSE IF ~UpdateFPDFInstanceOk(fpdf_objects[index + 1], o)
            THEN /\ UNCHANGED <<fpdf_objects, page_objects_>>
                 /\ last' = Call("UpdatePageObject", index, FALSE, 0, FALSE)
            ELSE /\ fpdf_objects' = [fpdf_objects EXCEPT
                        ![index + 1] = UpdateFPDFInstance(fpdf_objects[index + 1], o)]
                 /\ UNCHANGED page_objects_
                 /\ last' = Call("UpdatePageObject", index, TRUE, 0, FALSE)

(***************************************************************************)
(* The documents a page is opened on: its page objects before any call.    *)
(* The first is the shape of testdata/page_object.pdf (image, path, text); *)
(* the others hold an object of an unknown type and a path and a text that *)
(* do not populate.                                                        *)
(***************************************************************************)
Loaded(type, attr) == [type |-> type, attr |-> attr, populates |-> TRUE]
Unreadable(type) == [type |-> type, attr |-> 0, populates |-> FALSE]

InitialObjects ==
    { <<>>,
      <<Loaded("Path", 1)>>,
      <<Loaded("Image", 0), Unreadable("Form"), Loaded("Text", 0)>>,
      <<Unreadable("Path"), Loaded("Image", 0)>>,
      <<Loaded("Text", 1), Unreadable("Image")>> }

\* Indices a caller passes: every valid one, -1 and one past the end.
ObjectIndices == -1..MaxObjects

ObjectsInit ==
    /\ fpdf_objects \in InitialObjects
    /\ page_objects_ = <<>>

(***************************************************************************)
(* Annotations.                                                            *)
(*                                                                         *)
(* An Annotation of the caller or of the cache is [type, attr, items]:     *)
(* attr is its colours (Highlight, FreeText) or its bounds (Stamp), items  *)
(* its page objects (Stamp), its quad bounds (Highlight) or the characters *)
(* of its text content (FreeText).  A backing annotation adds hasRect      *)
(* (FPDFAnnot_GetRect succeeds) and populates (PopulateFromPdfiumInstance  *)
(* succeeds); "Link" stands for the subtypes the store does not support.   *)
(***************************************************************************)
NullAnnotation == [type |-> "Null", attr |-> 0, items |-> <<>>]

AnnotationTypes == {"Stamp", "Highlight", "FreeText"}

BadObject == -1      \* a page object of a stamp whose CreateFPDFInstance fails
ZeroQuad == 0        \* FS_QUADPOINTSF{0, 0, 0, 0, 0, 0, 0, 0}
DefaultAttr == 256   \* Color(): INVALID_COLOR in every channel
WCharBits == 16      \* FPDF_WCHAR is an unsigned short

RECURSIVE Pow2(_)
Pow2(n) == IF n = 0 THEN 1 ELSE 2 * Pow2(n - 1)

\* Characters a caller's text is drawn from: NUL, 'a', and U+10061, which does
\* not fit an FPDF_WCHAR.
WideChars == {0, 97, Pow2(WCharBits) + 97}

\* The annotations callers pass: a stamp with one object, a stamp whose object
\* cannot be created, highlights of one and of two quads, and free texts of
\* either colour and of each character.
CallerAnnotations ==
    [type : {"Stamp"}, attr : {0}, items : {<<1>>, <<BadObject>>}]
    \cup [type : {"Highlight"}, attr : {0}, items : {<<1>>, <<2, 1>>}]
    \cup [type : {"FreeText"}, attr : Attrs, items : {<<97>>}]
    \cup [type : {"FreeText"}, attr : {0}, items : {<<c>> : c \in WideChars}]

\* FPDFPage_RemoveAnnot(page, index)
RemoveAnnot(annots, index) == EraseAt(annots, index)

RECURSIVE UpToNul(_)
\* The characters of a NUL-terminated FPDF_WIDESTRING buffer before its first NUL.
UpToNul(buffer) ==
    IF buffer = <<>> \/ Head(buffer) = 0
        THEN <<>>
        ELSE <<Head(buffer)>> \o UpToNul(Tail(buffer))

\* pdfClient_utils::ToFPDFWideString: every wchar_t cast to FPDF_WCHAR, then a
\* terminating 0.
ToFPDFWideString(wstr) ==
    [k \in 1..(Len(wstr) + 1) |->
        IF k <= Len(wstr) THEN wstr[k] % Pow2(WCharBits) ELSE 0]

\* pdfClient_utils::ToWideString(buffer, text_length): text_length is in bytes
\* and counts the terminator; the characters before it are copied.
ToWideString(buffer, text_length) ==
    [k \in 1..((text_length \div 2) - 1) |-> buffer[k]]

\* FPDFAnnot_SetStringValue: pdfium keeps the string up to its first NUL.
StoredText(wstr) == UpToNul(ToFPDFWideString(wstr))

\* FPDFAnnot_GetStringValue hands the string back NUL-terminated, with its
\* length in bytes; GetTextContentFromPdfium converts it.
ReadText(stored) == ToWideString(stored \o <<0>>, 2 * (Len(stored) + 1))

RECURSIVE CreatedObjects(_)
\* The page objects StampAnnotation appends to the pdfium annotation, one
\* after the other, until one cannot be created.
CreatedObjects(items) ==
    IF items = <<>> \/ Head(items) = BadObject
        THEN <<>>
        ELSE <<Head(items)>> \o CreatedObjects(Tail(items))

AllCreated(items) == \A k \in 1..Len(items) : items[k] # BadObject

\* An update that writes the new bounds and keeps no surplus quad.
UpdateHighlightBoundsTruncating(old, bounds) == bounds

\* HighlightAnnotation::UpdatePdfiumInstance with updateExistingBounds: the
\* quads of the pdfium annotation after the new bounds are written over old.
UpdateHighlightBounds(old, bounds) ==
    IF Len(old) = Len(bounds)
        THEN bounds
        ELSE IF Len(old) < Len(bounds)
            THEN [k \in 1..Len(bounds) |-> bounds[k]]
            ELSE [k \in 1..Len(old) |-> IF k <= Len(bounds) THEN bounds[k] ELSE ZeroQuad]

\* Annotation::UpdatePdfiumInstance succeeds on backing annotation b for a.
UpdatePdfiumInstanceOk(b, a) ==
    /\ b.type = a.type
    /\ (a.type = "Stamp" => AllCreated(a.items))

\* UpdatePdfiumInstance leaving the colours (the bounds of a stamp) unset.
UpdatePdfiumInstanceKeepsAttr(b, a) ==
    IF b.type # a.type
        THEN b
        ELSE [b EXCEPT
                !.hasRect = IF a.type = "Highlight" THEN b.hasRect ELSE TRUE,
                !.populates = TRUE,
                !.items = IF a.type = "Stamp" THEN CreatedObjects(a.items)
                          ELSE IF a.type = "Highlight"
                              THEN UpdateHighlightBounds(b.items, a.items)
                              ELSE StoredText(a.items)]

\* The backing annotation after UpdatePdfiumInstance, successful or not: a
\* subtype mismatch changes nothing; a stamp gets its bounds set and its
\* objects removed before the new ones are appended up to the first failure.
UpdatePdfiumInstance(b, a) ==
    IF b.type # a.type
        THEN b
        ELSE [b EXCEPT
                !.attr = a.attr,
                !.hasRect = IF a.type = "Highlight" THEN b.hasRect ELSE TRUE,
                !.populates = TRUE,
                !.items = IF a.type = "Stamp" THEN CreatedObjects(a.items)
                          ELSE IF a.type = "Highlight"
                              THEN UpdateHighlightBounds(b.items, a.items)
                              ELSE StoredText(a.items)]

\* FPDFPage_CreateAnnot(page, subtype): the new, empty annotation, which pdfium
\* appends to the page at once.
CreateAnnot(type) ==
    [type |-> type, attr |-> DefaultAttr, items |-> <<>>,
     hasRect |-> FALSE, populates |-> TRUE]

\* Annotation::CreatePdfiumInstance: the annotation left in the page.
CreatePdfiumInstance(a) == UpdatePdfiumInstance(CreateAnnot(a.type), a)

\* CreatePdfiumInstance returns a non-null ScopedFPDFAnnotation: a stamp gives
\* up when one of its objects cannot be created, a highlight and a free text
\* only log a failed update.
CreatePdfiumInstanceOk(a) == a.type = "Stamp" => AllCreated(a.items)

\* What PopulateAnnotations stores for one backing annotation.
PopulateFromPdfiumInstance(b) ==
    IF b.type \notin AnnotationTypes \/ (b.type \in {"Stamp", "FreeText"} /\ ~b.hasRect)
        THEN NullAnnotation
        ELSE IF b.type = "Stamp"
            THEN [type |-> "Stamp", attr |-> b.attr, items |-> b.items]
            ELSE IF b.type = "Highlight"
                THEN [type |-> "Highlight",
                      attr |-> IF b.populates THEN b.attr ELSE DefaultAttr,
                      items |-> b.items]
                ELSE IF b.populates
                    THEN [type |-> "FreeText", attr |-> b.attr, items |-> ReadText(b.items)]
                    ELSE [type |-> "FreeText", attr |-> DefaultAttr, items |-> <<>>]

\* Page::PopulateAnnotations: the cache after the call; every slot is assigned.
PopulateAnnotations(annots) ==
    [k \in 1..Len(annots) |-> PopulateFromPdfiumInstance(annots[k])]

(***************************************************************************)
(* The operations of the annotation store.                                 *)
(***************************************************************************)
\* Page::GetPageAnnotations()
GetPageAnnotations ==
    /\ annotations_' = PopulateAnnotations(fpdf_annots)
    /\ UNCHANGED fpdf_annots
    /\ last' = Call("GetPageAnnotations", 0, TRUE, 0, FALSE)

\* AddPageAnnotation caching the annotation only in a cache that has slots.
AddPageAnnotationIfPopulated(a) ==
    /\ Len(fpdf_annots) < MaxAnnots
    /\ fpdf_annots' = Append(fpdf_annots, CreatePdfiumInstance(a))
    /\ IF ~CreatePdfiumInstanceOk(a)
          THEN /\ UNCHANGED annotations_
               /\ last' = Call("AddPageAnnotation", 0, FALSE, -1, FALSE)
          ELSE /\ annotations_' = IF annotations_ # <<>>
                                     THEN Append(annotations_, a)
                                     ELSE annotations_
               /\ last' = Call("AddPageAnnotation", 0, TRUE, Len(fpdf_annots), FALSE)

\* Page::AddPageAnnotation(annotation)
AddPageAnnotation(a) ==
    /\ Len(fpdf_annots) < MaxAnnots
    /\ fpdf_annots' = Append(fpdf_annots, CreatePdfiumInstance(a))
    /\ IF ~CreatePdfiumInstanceOk(a)
          THEN /\ UNCHANGED annotations_
               /\ last' = Call("AddPageAnnotation", 0, FALSE, -1, FALSE)
          ELSE /\ annotations_' = Append(annotations_, a)
               /\ last' = Call("AddPageAnnotation", 0, TRUE, Len(fpdf_annots), FALSE)

\* Page::RemovePageAnnotation(index)
RemovePageAnnotation(index) ==
    LET populated == PopulateAnnotations(fpdf_annots)
    IN IF index >= Len(populated) \/ index < 0
        THEN /\ annotations_' = populated
             /\ UNCHANGED fpdf_annots
             /\ last' = Call("RemovePageAnnotation", index, FALSE, 0, FALSE)
        ELSE /\ fpdf_annots' = RemoveAnnot(fpdf_annots, index)
             /\ annotations_' = EraseAt(populated, index)
             /\ last' = Call("RemovePageAnnotation", index, TRUE, 0, FALSE)

\* Page::UpdatePageAnnotation(index, annotation)
UpdatePageAnnotation(index, a) ==
    LET populated == PopulateAnnotations(fpdf_annots)
    IN /\ annotations_' = populated
       /\ IF index < 0 \/ index >= Len(populated)
            THEN /\ UNCHANGED fpdf_annots
                 /\ last' = Call("UpdatePageAnnotation", index, FALSE, 0, FALSE)
            ELSE IF populated[index + 1] = NullAnnotation
                THEN /\ UNCHANGED fpdf_annots
                     /\ last' = Call("UpdatePageAnnotation", index, FALSE, 0, FALSE)
                ELSE /\ fpdf_annots' = [fpdf_annots EXCEPT
                            ![index + 1] = UpdatePdfiumInstance(fpdf_annots[index + 1], a)]
                     /\ last' = Call("UpdatePageAnnotation", index,
                                     UpdatePdfiumInstanceOk(fpdf_annots[index + 1], a),
                                     0, FALSE)

(***************************************************************************)
(* The annotations a page is opened with.  The second document has the     *)
(* shape of testdata/annotation.pdf (one stamp); the others hold a link, a *)
(* free text whose rectangle cannot be read and a highlight of two quads   *)
(* whose colour cannot be read.                                            *)
(***************************************************************************)
LoadedAnnot(type, attr, items) ==
    [type |-> type, attr |-> attr, items |-> items, hasRect |-> TRUE, populates |-> TRUE]

InitialAnnots ==
    { <<>>,
      <<LoadedAnnot("Stamp", 1, <<1>>)>>,
      <<[LoadedAnnot("Link", 0, <<>>) EXCEPT !.populates = FALSE],
        LoadedAnnot("FreeText", 0, <<97>>)>>,
      <<[LoadedAnnot("FreeText", 0, <<97>>) EXCEPT !.hasRect = FALSE],
        [LoadedAnnot("Highlight", 1, <<1, 2>>) EXCEPT !.populates = FALSE]>> }

\* Indices a caller passes: every valid one, -1 and one past the end.
AnnotIndices == -1..MaxAnnots

AnnotsInit ==
    /\ fpdf_annots \in InitialAnnots
    /\ annotations_ = <<>>

(***************************************************************************)
(* The invalidation tracker.  The page is PageWidth x PageHeight points    *)
(* and is rendered at its own size, unrotated, so FPDF_PageToDevice keeps  *)
(* x and flips y about the page height.                                    *)
(***************************************************************************)
PageWidth == 2
PageHeight == 3

\* Page::Width() of a page that reports the full page.
WidthOfLoadedPage == PageWidth

\* Page::Width(): FPDF_GetPageWidth gives 0 for a null page.
Width == IF page_ THEN PageWidth ELSE 0

\* Page::Height(): FPDF_GetPageHeight gives 0 for a null page.
Height == IF page_ THEN PageHeight ELSE 0

\* Page::Dimensions()
Dimensions == IntRect(0, 0, Width, Height)

\* FPDF_PageToDevice(page, 0, 0, Width(), Height(), 0, x, y, ...)
PageToDevice(x, y) == [x |-> x, y |-> PageHeight - y]

\* Page::ApplyPageTransform(const Rectangle_i&)
ApplyPageTransform(input) ==
    LET output1 == PageToDevice(input.left, input.top)
        output2 == PageToDevice(input.right, input.bottom)
    IN Intersect(IntRectOfPoints(output1, output2), Dimensions)

\* What ApplyPageTransform(const Rectangle_i&) can return.  On a null page
\* FPDF_PageToDevice returns without writing output1 and output2, which are
\* then read uninitialized: any two points.
Indeterminate == [x : (-1)..(PageWidth + 1), y : (-1)..(PageHeight + 1)]

ApplyPageTransformOutputs(input) ==
    IF page_
        THEN {ApplyPageTransform(input)}
        ELSE {Intersect(IntRectOfPoints(output1, output2), Dimensions) :
                  output1 \in Indeterminate, output2 \in Indeterminate}

\* The entry check without its IsEmpty test.
RejectsNegativeOnly(rect) ==
    rect.left < 0 \/ rect.top < 0 \/ rect.right < 0 \/ rect.bottom < 0

\* The entry check of NotifyInvalidRect: the rectangle is dropped.
Rejects(rect) ==
    rect.left < 0 \/ rect.top < 0 \/ rect.right < 0 \/ rect.bottom < 0 \/ IsEmpty(rect)

\* The history of the accepted rectangles: empty device images add nothing.
Cover(cover, device_rect) ==
    IF IsEmpty(device_rect) THEN cover
    ELSE IF IsEmpty(cover) THEN device_rect
    ELSE Union(cover, device_rect)

\* Page::NotifyInvalidRect(rect)
NotifyInvalidRect(rect) ==
    IF Rejects(rect)
        THEN /\ UNCHANGED <<invalid_rect_, covered>>
             /\ last' = RectCall("NotifyInvalidRect", FALSE, kEmptyIntRectangle)
        ELSE \E device_rect \in ApplyPageTransformOutputs(rect) :
                /\ invalid_rect_' = IF IsEmpty(invalid_rect_)
                                       THEN device_rect
                                       ELSE Union(invalid_rect_, device_rect)
                /\ covered' = Cover(covered, device_rect)
                /\ last' = RectCall("NotifyInvalidRect", TRUE, kEmptyIntRectangle)

\* Page::Width()
CallWidth ==
    /\ UNCHANGED <<invalid_rect_, covered>>
    /\ last' = Call("Width", 0, TRUE, Width, FALSE)

\* Page::Height()
CallHeight ==
    /\ UNCHANGED <<invalid_rect_, covered>>
    /\ last' = Call("Height", 0, TRUE, Height, FALSE)

\* Page::Dimensions()
CallDimensions ==
    /\ UNCHANGED <<invalid_rect_, covered>>
    /\ last' = RectCall("Dimensions", TRUE, Dimensions)

\* Page::GetGotoLinks(): FPDFLink_Enumerate finds num_links links that pass
\* the checks of the loop, none on a null page; ret is links.size().
GetGotoLinks(num_links) ==
    /\ num_links >= 0
    /\ ~page_ => num_links = 0
    /\ UNCHANGED <<invalid_rect_, covered>>
    /\ last' = Call("GetGotoLinks", 0, TRUE, num_links, FALSE)

\* Page::HasInvalidRect()
HasInvalidRect ==
    /\ UNCHANGED <<invalid_rect_, covered>>
    /\ last' = RectCall("HasInvalidRect", ~IsEmpty(invalid_rect_), kEmptyIntRectangle)

\* Page::ConsumeInvalidRect(), handing out a second copy of the rectangle.
ConsumeInvalidRectKeeps ==
    /\ UNCHANGED invalid_rect_
    /\ covered' = kEmptyIntRectangle
    /\ last' = RectCall("ConsumeInvalidRect", TRUE, invalid_rect_)

\* Page::ConsumeInvalidRect()
ConsumeInvalidRect ==
    /\ invalid_rect_' = kEmptyIntRectangle
    /\ covered' = kEmptyIntRectangle
    /\ last' = RectCall("ConsumeInvalidRect", TRUE, invalid_rect_)

\* The rectangles a caller notifies, in page space: inside the page, across
\* its edges and beyond them, with a negative coordinate, without area.
XCoords == -1..(PageWidth + 1)
YCoords == -1..(PageHeight + 1)
PageRects == [left : XCoords, top : YCoords, right : XCoords, bottom : YCoords]

RectInit ==
    /\ invalid_rect_ = kEmptyIntRectangle
    /\ covered = kEmptyIntRectangle

rectVars == <<invalid_rect_, covered>>

(***************************************************************************)
(* Search.  Characters are code points; the text page holds small and      *)
(* capital letters, an accented letter and a combining accent.             *)
(***************************************************************************)
MaxText == 3
MaxQuery == 2
MaxSearches == 1     \* SpecText follows a page for this many calls of FindMatchesUtf8

\* 'a', 'b', 'A' and U+0300 COMBINING GRAVE ACCENT
TextChars == {97, 98, 65, 768}
\* A query is normalized: 'a' and 'b'.
QueryChars == {97, 98}

\* All sequences over chars of length n.
RECURSIVE SeqsOfLen(_, _)
SeqsOfLen(chars, n) ==
    IF n = 0 THEN {<<>>}
    ELSE {Append(w, c) : w \in SeqsOfLen(chars, n - 1), c \in chars}

SeqsUpTo(chars, n) == UNION {SeqsOfLen(chars, k) : k \in 0..n}

\* Page::GetUnicode(index): FPDFText_GetUnicode gives 0 outside the text.
GetUnicode(t, index) == IF index >= 0 /\ index < Len(t) THEN t[index + 1] ELSE 0

\* NormalizeForSearch(codepoint): case folded, accents stripped.
NormalizeForSearch(codepoint) ==
    IF codepoint >= 65 /\ codepoint <= 90 THEN codepoint + 32   \* 'A'..'Z'
    ELSE IF codepoint = 224 THEN 97                              \* a with grave
    ELSE codepoint

\* IsSkippableForSearch(codepoint, prev_codepoint): a combining mark.
IsSkippableForSearch(codepoint, prev_codepoint) == codepoint = 768

NoMatch == [ok |-> FALSE, first |-> 0, second |-> 0]

\* The loop of Page::IsMatch from its state (page_index, query_index,
\* page_char): ok is the result, <<first, second>> what it writes to *match.
RECURSIVE IsMatchLoop(_, _, _, _, _, _, _)
IsMatchLoop(t, q, match_start, stop, page_index, query_index, page_char) ==
    IF query_index >= Len(q)
        THEN [ok |-> TRUE, first |-> match_start, second |-> page_index]
        ELSE LET prev_char == page_char
                 next_char == GetUnicode(t, page_index)
             IN IF NormalizeForSearch(next_char) = q[query_index + 1]
                  THEN IsMatchLoop(t, q, match_start, stop,
                                   page_index + 1, query_index + 1, next_char)
                  ELSE IF IsSkippableForSearch(next_char, prev_char) /\ query_index > 0
                      THEN IF (stop - (page_index + 1)) < (Len(q) - query_index)
                             THEN NoMatch
                             ELSE IsMatchLoop(t, q, match_start, stop,
                                              page_index + 1, query_index, next_char)
                      ELSE NoMatch

\* Page::IsMatch(query, match_start, page_stop, match)
IsMatch(t, q, match_start, stop) == IsMatchLoop(t, q, match_start, stop, match_start, 0, 0)

\* The loop of Page::FindMatch from candidate m.
RECURSIVE FindMatchLoop(_, _, _, _, _)
FindMatchLoop(t, q, m, max_match_start, stop) ==
    IF m > max_match_start THEN NoMatch
    ELSE IF IsMatch(t, q, m, stop).ok THEN IsMatch(t, q, m, stop)
    ELSE FindMatchLoop(t, q, m + 1, max_match_start, stop)

\* FindMatch that leaves out the last candidate.
FindMatchStopsEarly(t, q, start, stop) ==
    IF q = <<>> THEN NoMatch
    ELSE FindMatchLoop(t, q, start, stop - Len(q) - 1, stop)

\* Page::FindMatch(query, page_start, page_stop, match)
FindMatch(t, q, start, stop) ==
    IF q = <<>> THEN NoMatch
    ELSE FindMatchLoop(t, q, start, stop - Len(q), stop)

\* One pass of the loop of IsMatch that skips a skippable character also
\* before any query character has matched.
IsMatchStepSkipsAtStart(t, q, stop, page_index, query_index, page_char) ==
    LET next_char == GetUnicode(t, page_index)
    IN IF NormalizeForSearch(next_char) = q[query_index + 1] THEN "advance"
       ELSE IF IsSkippableForSearch(next_char, page_char)
           THEN IF (stop - (page_index + 1)) < (Len(q) - query_index)
                  THEN "no_room" ELSE "skip"
           ELSE "mismatch"

\* One pass of the loop of IsMatch that skips without looking at the room left.
IsMatchStepSkipsFreely(t, q, stop, page_index, query_index, page_char) ==
    LET next_char == GetUnicode(t, page_index)
    IN IF NormalizeForSearch(next_char) = q[query_index + 1] THEN "advance"
       ELSE IF IsSkippableForSearch(next_char, page_char) /\ query_index > 0
           THEN "skip"
           ELSE "mismatch"

\* One pass of the loop of Page::IsMatch, page_char being the character of
\* the pass before: the branch it takes.  "advance" moves both indices,
\* "skip" the page index only, "no_room" and "mismatch" return false.
IsMatchStep(t, q, stop, page_index, query_index, page_char) ==
    LET next_char == GetUnicode(t, page_index)
    IN IF NormalizeForSearch(next_char) = q[query_index + 1] THEN "advance"
       ELSE IF IsSkippableForSearch(next_char, page_char) /\ query_index > 0
           THEN IF (stop - (page_index + 1)) < (Len(q) - query_index)
                  THEN "no_room" ELSE "skip"
           ELSE "mismatch"

\* The passes of the loop of Page::IsMatch from its state (page_index,
\* query_index, page_char), in order: the index and the character each pass
\* reads, the character before it, the query index and the branch taken.
RECURSIVE IsMatchSteps(_, _, _, _, _, _)
IsMatchSteps(t, q, stop, page_index, query_index, page_char) ==
    IF query_index >= Len(q)
        THEN <<>>
        ELSE LET step == IsMatchStep(t, q, stop, page_index, query_index, page_char)
                 pass == [page_index |-> page_index, query_index |-> query_index,
                          page_char |-> GetUnicode(t, page_index),
                          prev_char |-> page_char, step |-> step]
             IN IF step = "advance"
                  THEN <<pass>> \o IsMatchSteps(t, q, stop, page_index + 1,
                                                query_index + 1, pass.page_char)
                  ELSE IF step = "skip"
                      THEN <<pass>> \o IsMatchSteps(t, q, stop, page_index + 1,
                                                    query_index, pass.page_char)
                      ELSE <<pass>>

\* The candidates m of FindMatchLoop from m on for which IsMatch is called.
RECURSIVE FindMatchTried(_, _, _, _, _)
FindMatchTried(t, q, m, max_match_start, stop) ==
    IF m > max_match_start THEN {}
    ELSE IF IsMatch(t, q, m, stop).ok THEN {m}
    ELSE {m} \cup FindMatchTried(t, q, m + 1, max_match_start, stop)

\* The calls of IsMatch of a FindMatch that tries one candidate more.
FindMatchCallsOneMore(t, q, start, stop) ==
    IF q = <<>> THEN {}
    ELSE FindMatchTried(t, q, start, stop - Len(q) + 1, stop)

\* The match_start values with which Page::FindMatch(query, page_start,
\* page_stop, match) calls IsMatch.
FindMatchCalls(t, q, start, stop) ==
    IF q = <<>> THEN {}
    ELSE FindMatchTried(t, q, start, stop - Len(q), stop)

searchVars == <<text, query, page_start, page_stop, match,
                matches, matches_given, num_matches, searching>>

\* A page that is not being searched.
NotSearching ==
    /\ query = <<>>
    /\ page_start = 0
    /\ page_stop = 0
    /\ match = <<0, 0>>
    /\ matches = <<>>
    /\ matches_given = FALSE
    /\ num_matches = 0
    /\ searching = FALSE

\* A page without text, not searched.
SearchIdle ==
    /\ text = <<>>
    /\ NotSearching

\* The loop of FindMatchesUtf8 about to start, for any query over any range
\* of any text.
SearchInit ==
    /\ text \in SeqsUpTo(TextChars, MaxText)
    /\ query \in SeqsUpTo(QueryChars, MaxQuery)
    /\ page_start \in 0..Len(text)
    /\ page_stop \in 0..Len(text)
    /\ match = <<0, 0>>
    /\ matches = <<>>
    /\ matches_given = TRUE
    /\ num_matches = 0
    /\ searching = TRUE

(***************************************************************************)
(* The text index: the text page of the page, loaded on first use, and the *)
(* range of its printable characters.                                      *)
(***************************************************************************)
\* The characters of a text page: 'a', 'b', the combining accent and the space.
IndexChars == {97, 98, 768, 32}

\* IsWordBreak(codepoint): white space and control characters.
IsWordBreak(codepoint) == codepoint = 32 \/ codepoint = 10 \/ codepoint = 0

\* The first loop of EnsureTextPageInitialized from i.
RECURSIVE FirstPrintable(_, _)
FirstPrintable(t, i) ==
    IF i < Len(t) /\ IsWordBreak(GetUnicode(t, i)) THEN FirstPrintable(t, i + 1) ELSE i

\* A second loop that scans back to the start of the text.
RECURSIVE LastPrintableFromStart(_, _, _)
LastPrintableFromStart(t, i, first) ==
    IF i >= 0 /\ IsWordBreak(GetUnicode(t, i)) THEN LastPrintableFromStart(t, i - 1, first) ELSE i

\* The second loop of EnsureTextPageInitialized from i.
RECURSIVE LastPrintable(_, _, _)
LastPrintable(t, i, first) ==
    IF i >= first /\ IsWordBreak(GetUnicode(t, i)) THEN LastPrintable(t, i - 1, first) ELSE i

\* Page::EnsureTextPageInitialized(): the members after it, whether it called
\* FPDFText_LoadPage (load) and whether it scanned the characters (scan).
EnsureTextPageInitialized ==
    IF text_page_
        THEN [text_page |-> TRUE, first |-> first_printable_char_index_,
              last |-> last_printable_char_index_, load |-> FALSE, scan |-> FALSE]
    ELSE IF ~page_
        THEN [text_page |-> FALSE, first |-> -1, last |-> -1,
              load |-> FALSE, scan |-> FALSE]
    ELSE IF ~text_loadable
        THEN [text_page |-> FALSE, first |-> -1, last |-> -1,
              load |-> TRUE, scan |-> FALSE]
    ELSE [text_page |-> TRUE, first |-> FirstPrintable(text, 0),
          last |-> LastPrintable(text, Len(text) - 1, FirstPrintable(text, 0)),
          load |-> TRUE, scan |-> TRUE]

\* The members of the text index after a call that ran
\* EnsureTextPageInitialized with outcome e.
SetTextIndex(e) ==
    /\ text_page_' = e.text_page
    /\ first_printable_char_index_' = e.first
    /\ last_printable_char_index_' = e.last
    /\ ensured' = [load |-> e.load, scan |-> e.scan,
                   failed |-> ensured.failed \/ (e.load /\ ~e.text_page)]
    /\ UNCHANGED <<page_, text_loadable>>

\* A call that does not come to EnsureTextPageInitialized.
KeepTextIndex ==
    /\ ensured' = [load |-> FALSE, scan |-> FALSE, failed |-> ensured.failed]
    /\ UNCHANGED <<page_, text_loadable, text_page_,
                   first_printable_char_index_, last_printable_char_index_>>

\* FPDFText_CountChars(text_page): -1 without a text page.
CountChars(text_page) == IF text_page THEN Len(text) ELSE -1

\* FPDFText_GetUnicode(text_page, index): 0 without a text page.
TextUnicode(text_page, index) == IF text_page THEN GetUnicode(text, index) ELSE 0

\* Page::NumChars()
NumChars ==
    LET e == EnsureTextPageInitialized
    IN /\ SetTextIndex(e)
       /\ last' = Call("NumChars", 0, e.text_page, CountChars(e.text_page), FALSE)

\* Page::GetUnicode(char_index)
GetUnicodeAt(char_index) ==
    LET e == EnsureTextPageInitialized
    IN /\ SetTextIndex(e)
       /\ last' = Call("GetUnicode", char_index, e.text_page,
                       TextUnicode(e.text_page, char_index), FALSE)

\* Page::first_printable_char_index()
first_printable_char_index ==
    LET e == EnsureTextPageInitialized
    IN /\ SetTextIndex(e)
       /\ last' = Call("first_printable_char_index", 0, e.text_page, e.first, FALSE)

\* Page::last_printable_char_index()
last_printable_char_index ==
    LET e == EnsureTextPageInitialized
    IN /\ SetTextIndex(e)
       /\ last' = Call("last_printable_char_index", 0, e.text_page, e.last, FALSE)

\* Page::FindMatchesUtf8(utf8, matches) up to its loop: q is the normalized
\* query, given whether the caller passes a vector.
FindMatchesUtf8Begin(q, given) ==
    LET e == EnsureTextPageInitialized
    IN /\ ~searching
       /\ calls < MaxSearches
       /\ calls' = calls + 1
       /\ SetTextIndex(e)
       /\ query' = q
       /\ page_start' = e.first
       /\ page_stop' = e.last + 1
       /\ matches' = <<>>
       /\ matches_given' = given
       /\ num_matches' = 0
       /\ searching' = TRUE
       /\ UNCHANGED <<text, match>>
       /\ last' = Call("FindMatchesUtf8", 0, TRUE, 0, FALSE)

\* The turn of a loop that goes on one character after the start of the match.
FindMatchesUtf8Overlapping ==
    LET found == FindMatch(text, query, page_start, page_stop)
    IN /\ searching
       /\ match' = IF found.ok THEN <<found.first, found.second>> ELSE match
       /\ page_start' = IF found.ok THEN match'[1] + 1 ELSE page_start
       /\ matches' = IF found.ok /\ matches_given THEN Append(matches, match')
                                                   ELSE matches
       /\ num_matches' = IF found.ok THEN num_matches + 1 ELSE num_matches
       /\ searching' = found.ok
       /\ UNCHANGED <<text, query, page_stop, matches_given>>
       /\ IF query # <<>> /\ page_start <= page_stop - Len(query)
             THEN SetTextIndex(EnsureTextPageInitialized)
             ELSE KeepTextIndex
       /\ last' = Call("FindMatch", 0, found.ok, num_matches', FALSE)

\* One turn of the loop of Page::FindMatchesUtf8: FindMatch, and on a match
\* the range is appended and counted and the next turn starts where the
\* match stopped; without a match the loop ends and num_matches is returned.
\* FindMatch reads characters, through text_page(), when it has a candidate.
FindMatchesUtf8 ==
    LET found == FindMatch(text, query, page_start, page_stop)
    IN /\ searching
       /\ match' = IF found.ok THEN <<found.first, found.second>> ELSE match
       /\ page_start' = IF found.ok THEN match'[2] ELSE page_start
       /\ matches' = IF found.ok /\ matches_given THEN Append(matches, match')
                                                   ELSE matches
       /\ num_matches' = IF found.ok THEN num_matches + 1 ELSE num_matches
       /\ searching' = found.ok
       /\ UNCHANGED <<text, query, page_stop, matches_given>>
       /\ IF query # <<>> /\ page_start <= page_stop - Len(query)
             THEN SetTextIndex(EnsureTextPageInitialized)
             ELSE KeepTextIndex
       /\ last' = Call("FindMatch", 0, found.ok, num_matches', FALSE)

(***************************************************************************)
(* Word selection.  A SelectionBoundary is [index, point]; the geometry of *)
(* the point is left out: "caller" is the point the caller put in it,      *)
(* "char" the point GetBoundaryAtIndex or GetBoundaryAtPoint worked out.   *)
(***************************************************************************)
SelectionBoundary(index) == [index |-> index, point |-> "caller"]

\* Page::GetWordStartIndex(index)
RECURSIVE GetWordStartIndex(_, _)
GetWordStartIndex(t, index) ==
    IF index > 0 /\ ~IsWordBreak(GetUnicode(t, index - 1))
        THEN GetWordStartIndex(t, index - 1)
        ELSE index

\* Page::GetWordStopIndex(index)
RECURSIVE GetWordStopIndex(_, _)
GetWordStopIndex(t, index) ==
    IF index < Len(t) /\ ~IsWordBreak(GetUnicode(t, index))
        THEN GetWordStopIndex(t, index + 1)
        ELSE index

\* Page::GetBoundaryAtIndex(index)
GetBoundaryAtIndex(index) == [index |-> index, point |-> "char"]

\* Page::GetBoundaryAtPoint(point): the nearest of the boundaries from first
\* to last + 1, or the boundary of index 0 it starts from.
GetBoundaryAtPoint(first_printable, last_printable) ==
    {GetBoundaryAtIndex(index) : index \in first_printable..(last_printable + 1)}
        \cup {[index |-> 0, point |-> "caller"]}

\* ConstrainBoundary with an index kept at or before the last printable
\* character.
ConstrainBoundaryToLast(boundary, first_printable, last_printable) ==
    IF boundary.index < 0
        THEN GetBoundaryAtPoint(first_printable, last_printable)
        ELSE {GetBoundaryAtIndex(
                  Min(Max(boundary.index, first_printable), last_printable))}

\* Page::ConstrainBoundary(boundary): the boundaries it can leave in
\* *boundary, the printable range being first_printable..last_printable.
ConstrainBoundary(boundary, first_printable, last_printable) ==
    IF boundary.index < 0
        THEN GetBoundaryAtPoint(first_printable, last_printable)
        ELSE {GetBoundaryAtIndex(
                  Min(Max(boundary.index, first_printable), last_printable + 1))}

\* What FPDFText_GetCharIndexAtPos can return: the index of a character near
\* the point, -1 when there is none, -3 on an error or without a text page.
CharIndexAtPos(text_page) ==
    IF text_page THEN (0..(Len(text) - 1)) \cup {-1, -3} ELSE {-3}

\* Page::SelectWordAt(point, start, stop), char_index being the character
\* pdfium finds at the point.
SelectWordAt(char_index) ==
    LET e == EnsureTextPageInitialized
    IN /\ char_index \in CharIndexAtPos(e.text_page)
       /\ SetTextIndex(e)
       /\ IF char_index < 0 \/ IsWordBreak(TextUnicode(e.text_page, char_index))
             THEN /\ UNCHANGED <<start_boundary, stop_boundary>>
                  /\ last' = Call("SelectWordAt", char_index, FALSE, 0, FALSE)
             ELSE /\ start_boundary' \in
                        ConstrainBoundary(
                            SelectionBoundary(GetWordStartIndex(text, char_index)),
                            e.first, e.last)
                  /\ stop_boundary' \in
                        ConstrainBoundary(
                            SelectionBoundary(GetWordStopIndex(text, char_index)),
                            e.first, e.last)
                  /\ last' = Call("SelectWordAt", char_index, TRUE, 0, FALSE)

selectVars == <<start_boundary, stop_boundary>>

\* The boundaries of a caller before SelectWordAt.
SelectIdle ==
    /\ start_boundary = SelectionBoundary(-1)
    /\ stop_boundary = SelectionBoundary(-1)

indexVars == <<page_, text_loadable, text_page_, first_printable_char_index_,
               last_printable_char_index_, ensured>>

\* A page whose text index has not been used.
TextIdle ==
    /\ page_ = TRUE
    /\ text_loadable = TRUE
    /\ text_page_ = FALSE
    /\ first_printable_char_index_ = 0
    /\ last_printable_char_index_ = 0
    /\ ensured = [load |-> FALSE, scan |-> FALSE, failed |-> FALSE]

\* A page whose text index is loaded.
TextLoaded ==
    /\ page_ = TRUE
    /\ text_loadable = TRUE
    /\ text_page_ = TRUE
    /\ first_printable_char_index_ = FirstPrintable(text, 0)
    /\ last_printable_char_index_ =
           LastPrintable(text, Len(text) - 1, FirstPrintable(text, 0))
    /\ ensured = [load |-> TRUE, scan |-> TRUE, failed |-> FALSE]

(***************************************************************************)
(* The matrix of a path object.  A Matrix is [a, b, c, d, e, f] and maps   *)
(* (x, y) to (a x + c y + e, b x + d y + f); the coefficients are whole    *)
(* numbers, so the arithmetic is exact.                                    *)
(***************************************************************************)
MaxCoeff == 1

Coeffs == (-MaxCoeff)..MaxCoeff

Matrix(a, b, c, d, e, f) == [a |-> a, b |-> b, c |-> c, d |-> d, e |-> e, f |-> f]

Matrices == [a : Coeffs, b : Coeffs, c : Coeffs, d : Coeffs, e : Coeffs, f : Coeffs]

\* Matrix identity = {1, 0, 0, 1, 0, 0}
Identity == Matrix(1, 0, 0, 1, 0, 0)

\* FPDFPageObj_Transform(object, a, b, c, d, e, f) on an object of matrix m:
\* pdfium concatenates, the object's matrix first and t after it.
Transform(m, t) ==
    Matrix(m.a * t.a + m.b * t.c, m.a * t.b + m.b * t.d,
           m.c * t.a + m.d * t.c, m.c * t.b + m.d * t.d,
           m.e * t.a + m.f * t.c + t.e, m.e * t.b + m.f * t.d + t.f)

\* A conversion that only flips the translation about the page height.
PageToDeviceMatrixFlip(page_matrix, page_height) ==
    Matrix(page_matrix.a,
           IF page_matrix.b # 0 THEN -page_matrix.b ELSE 0,
           IF page_matrix.c # 0 THEN -page_matrix.c ELSE 0,
           page_matrix.d,
           page_matrix.e,
           page_height - page_matrix.f)

\* The page matrix GetPageToDeviceMatrix turns into device_matrix_.
PageToDeviceMatrix(page_matrix, page_height) ==
    Matrix(page_matrix.a,
           IF page_matrix.b # 0 THEN -page_matrix.b ELSE 0,
           IF page_matrix.c # 0 THEN -page_matrix.c ELSE 0,
           page_matrix.d,
           page_matrix.e + (page_height * page_matrix.c),
           page_height - page_matrix.f - (page_height * page_matrix.d))

\* The three transforms applied the other way round.
DeviceToPageMatrixReversed(device_matrix, page_height) ==
    Transform(
        Transform(
            Transform(Identity, Matrix(1, 0, 0, 1, 0, page_height)),
            Matrix(device_matrix.a, -device_matrix.b, -device_matrix.c,
                   device_matrix.d, device_matrix.e, -device_matrix.f)),
        Matrix(1, 0, 0, 1, 0, -page_height))

\* The matrix SetDeviceToPageMatrix leaves in the backing object: the
\* identity, then the three transforms in their order.
DeviceToPageMatrix(device_matrix, page_height) ==
    Transform(
        Transform(
            Transform(Identity, Matrix(1, 0, 0, 1, 0, -page_height)),
            Matrix(device_matrix.a, -device_matrix.b, -device_matrix.c,
                   device_matrix.d, device_matrix.e, -device_matrix.f)),
        Matrix(1, 0, 0, 1, 0, page_height))

\* PathObject::GetPageToDeviceMatrix(path_object, page)
GetPageToDeviceMatrix ==
    /\ device_matrix_' = PageToDeviceMatrix(fpdf_matrix, PageHeight)
    /\ UNCHANGED fpdf_matrix
    /\ last' = Call("GetPageToDeviceMatrix", 0, TRUE, 0, FALSE)

\* PathObject::SetDeviceToPageMatrix(path_object, page)
SetDeviceToPageMatrix ==
    /\ fpdf_matrix' = DeviceToPageMatrix(device_matrix_, PageHeight)
    /\ UNCHANGED device_matrix_
    /\ last' = Call("SetDeviceToPageMatrix", 0, TRUE, 0, FALSE)

matrixVars == <<device_matrix_, fpdf_matrix>>

\* A page whose path matrices are not looked at.
MatrixIdle ==
    /\ device_matrix_ = Identity
    /\ fpdf_matrix = Identity

\* A path object of the caller with any device matrix, about to be written
\* to a new backing object, or a backing object with any page matrix, about
\* to be read.
MatrixInit ==
    \/ device_matrix_ \in Matrices /\ fpdf_matrix = Identity
    \/ fpdf_matrix \in Matrices /\ device_matrix_ = Identity

(***************************************************************************)
(* Points.  A Point_f is [x, y] in units of 1/Scale, so that points        *)
(* between the whole coordinates exist; a Point_i or a double that pdfium  *)
(* hands over is named as such.                                            *)
(***************************************************************************)
Scale == 2

\* FXSYS_roundf of n / Scale: the nearest whole number, halves away from zero.
RoundF(n) ==
    IF n >= 0 THEN (2 * n + Scale) \div (2 * Scale)
    ELSE -((2 * (-n) + Scale) \div (2 * Scale))

\* The conversion of the float n / Scale to int: towards zero.
ToInt(n) == IF n >= 0 THEN n \div Scale ELSE -((-n) \div Scale)

\* FPDF_PageToDevice(page, 0, 0, Width(), Height(), 0, x, y, &out.x, &out.y)
\* for x and y in units of 1/Scale: the projection, rounded to a Point_i.
FPDF_PageToDevice(x, y) == [x |-> RoundF(x), y |-> RoundF(Scale * PageHeight - y)]

\* FPDF_DeviceToPage(page, 0, 0, Width(), Height(), 0, x, y, &out.x, &out.y)
\* for whole x and y: the page point, in units of 1/Scale.
FPDF_DeviceToPage(x, y) == [x |-> Scale * x, y |-> Scale * (PageHeight - y)]

\* Page::PageToDevice(in): what it returns.
PageToDevicePoint(in) ==
    LET out == FPDF_PageToDevice(in.x, in.y)
    IN [x |-> Scale * out.x, y |-> Scale * out.y]

\* Page::DeviceToPage(in): what it returns.
DeviceToPagePoint(in) == FPDF_DeviceToPage(ToInt(in.x), ToInt(in.y))

\* A call of Page::PageToDevice(in)
CallPageToDevice(in) ==
    /\ page_point' = in
    /\ device_point' = PageToDevicePoint(in)
    /\ last' = Call("PageToDevice", 0, TRUE, 0, FALSE)

\* A call of Page::DeviceToPage(in)
CallDeviceToPage(in) ==
    /\ device_point' = in
    /\ page_point' = DeviceToPagePoint(in)
    /\ last' = Call("DeviceToPage", 0, TRUE, 0, FALSE)

pointVars == <<page_point, device_point>>

\* The points callers pass: on the page, on its edges and just outside it.
Points == [x : (-1)..(Scale * PageWidth + 1), y : (-1)..(Scale * PageHeight + 1)]

\* No point has been converted.
PointIdle ==
    /\ page_point = [x |-> 0, y |-> 0]
    /\ device_point = [x |-> 0, y |-> 0]

(***************************************************************************)
(* Text bounds.  The glyph box of a character is [x1, x2, y1, y2] as       *)
(* FPDFText_GetCharBox writes it: left, right, bottom and top, in page     *)
(* space (y upwards), in whole points.  A Rectangle_d is a record like a   *)
(* Rectangle_i; OuterIntRect leaves whole coordinates as they are.         *)
(***************************************************************************)
GlyphBox(x1, x2, y1, y2) == [x1 |-> x1, x2 |-> x2, y1 |-> y1, y2 |-> y2]

\* The boxes of the characters of a page: none (a space, a line break), and a
\* glyph at the left and at the right of the first line and on the second.
GlyphBoxes ==
    {GlyphBox(0, 0, 0, 0), GlyphBox(0, 1, 2, 3), GlyphBox(1, 2, 2, 3), GlyphBox(0, 1, 0, 1)}

\* The characters of a page whose bounds are asked for: 'a' and the line feed.
BoundsChars == {97, 10}

\* The boxes a character can have: a letter any, a line feed none or one at
\* the end of the first line.
BoxesOf(codepoint) ==
    IF codepoint = 10 THEN {GlyphBox(0, 0, 0, 0), GlyphBox(1, 2, 2, 3)} ELSE GlyphBoxes

\* IsLineBreak(codepoint)
IsLineBreak(codepoint) == codepoint = 10 \/ codepoint = 13

\* DoubleRect(left, top, right, bottom)
DoubleRect(left, top, right, bottom) ==
    [left |-> left, top |-> top, right |-> right, bottom |-> bottom]

\* GetTextBounds pushing nothing at a line break: one box around the range.
TextBoundsOneBox(t, boxes, start_index, stop_index, given) ==
    LET out == [rects |-> given, num_rects |-> 0]
        run == {k \in start_index..(stop_index - 1) :
                   boxes[k + 1].x1 # boxes[k + 1].x2 /\ boxes[k + 1].y1 # boxes[k + 1].y2}
        lo(S) == CHOOSE v \in S : \A w \in S : v <= w
        hi(S) == CHOOSE v \in S : \A w \in S : v >= w
    IN IF run = {} THEN out
       ELSE [rects |-> Append(out.rects,
                 ApplyPageTransform(DoubleRect(lo({boxes[k + 1].x1 : k \in run}),
                                               lo({boxes[k + 1].y1 : k \in run}),
                                               hi({boxes[k + 1].x2 : k \in run}),
                                               hi({boxes[k + 1].y2 : k \in run})))),
             num_rects |-> out.num_rects + 1]

\* The loop of Page::GetTextBounds from index on, rect being the rectangle
\* of the current line so far and out the vector and the count so far, and
\* the push after the loop.
RECURSIVE GetTextBoundsLoop(_, _, _, _, _, _)
GetTextBoundsLoop(t, boxes, index, stop_index, rect, out) ==
    LET pushed == IF ~IsEmpty(rect)
                     THEN [rects |-> Append(out.rects, ApplyPageTransform(rect)),
                           num_rects |-> out.num_rects + 1]
                     ELSE out
    IN IF index >= stop_index
         THEN pushed
         ELSE LET box == boxes[index + 1]
                  char_rect == DoubleRect(box.x1, box.y1, box.x2, box.y2)
                  grown == IF box.x1 # box.x2 /\ box.y1 # box.y2
                              THEN IF IsEmpty(rect) THEN char_rect
                                   ELSE Union(rect, char_rect)
                              ELSE rect
                  at_break == IF ~IsEmpty(grown)
                                 THEN [rects |-> Append(out.rects, ApplyPageTransform(grown)),
                                       num_rects |-> out.num_rects + 1]
                                 ELSE out
              IN IF IsLineBreak(GetUnicode(t, index))
                   THEN GetTextBoundsLoop(t, boxes, index + 1, stop_index,
                                          DoubleRect(0, 0, 0, 0), at_break)
                   ELSE GetTextBoundsLoop(t, boxes, index + 1, stop_index, grown, out)

\* Page::GetTextBounds(start_index, stop_index, rects) called with the vector
\* given: the vector afterwards and the count returned.
TextBounds(t, boxes, start_index, stop_index, given) ==
    GetTextBoundsLoop(t, boxes, start_index, stop_index, DoubleRect(0, 0, 0, 0),
                      [rects |-> given, num_rects |-> 0])

\* The loop of Page::FindMatchesUtf8 as a whole: the matches it pushes.
RECURSIVE FindMatchesLoop(_, _, _, _)
FindMatchesLoop(t, q, start, stop) ==
    LET found == FindMatch(t, q, start, stop)
    IN IF found.ok
         THEN <<<<found.first, found.second>>>> \o FindMatchesLoop(t, q, found.second, stop)
         ELSE <<>>

\* A pass of the loop of BoundsOfMatchesUtf8 that also enters a match
\* without rectangles.
BoundsOfMatchKeepsAll(out, start, bounds) ==
    [rects |-> bounds.rects,
     match_to_rect |-> Append(out.match_to_rect, out.num_rects),
     char_indexes |-> Append(out.char_indexes, start),
     num_rects |-> out.num_rects + bounds.num_rects,
     num_matches_with_rects |-> out.num_matches_with_rects + 1]

\* One pass of the loop of Page::BoundsOfMatchesUtf8, for a match that
\* begins at start and for which GetTextBounds gave bounds.
BoundsOfMatch(out, start, bounds) ==
    IF bounds.num_rects = 0
        THEN out
        ELSE [rects |-> bounds.rects,
              match_to_rect |-> Append(out.match_to_rect, out.num_rects),
              char_indexes |-> Append(out.char_indexes, start),
              num_rects |-> out.num_rects + bounds.num_rects,
              num_matches_with_rects |-> out.num_matches_with_rects + 1]

\* The loop of Page::BoundsOfMatchesUtf8 from match i on.
RECURSIVE BoundsOfMatchesLoop(_, _, _, _, _)
BoundsOfMatchesLoop(t, boxes, found, i, out) ==
    IF i >= Len(found)
        THEN out
        ELSE BoundsOfMatchesLoop(t, boxes, found, i + 1,
                 BoundsOfMatch(out, found[i + 1][1],
                     TextBounds(t, boxes, found[i + 1][1], found[i + 1][2], out.rects)))

\* Page::GetTextBounds(start_index, stop_index, rects)
GetTextBounds(start_index, stop_index, given) ==
    LET e == EnsureTextPageInitialized
        bounds == TextBounds(text, char_boxes, start_index, stop_index, given)
    IN /\ IF start_index < stop_index THEN SetTextIndex(e) ELSE KeepTextIndex
       /\ rects' = bounds.rects
       /\ UNCHANGED <<char_boxes, match_to_rect, char_indexes>>
       /\ last' = Call("GetTextBounds", start_index, TRUE, bounds.num_rects, FALSE)

\* Page::BoundsOfMatchesUtf8(utf8, rects, match_to_rect, char_indexes), q
\* being the normalized query and given the vector passed as rects.
BoundsOfMatchesUtf8(q, given) ==
    LET e == EnsureTextPageInitialized
        found == FindMatchesLoop(text, q, e.first, e.last + 1)
        out == BoundsOfMatchesLoop(text, char_boxes, found, 0,
                   [rects |-> given, match_to_rect |-> <<>>, char_indexes |-> <<>>,
                    num_rects |-> 0, num_matches_with_rects |-> 0])
    IN /\ SetTextIndex(e)
       /\ rects' = out.rects
       /\ match_to_rect' = out.match_to_rect
       /\ char_indexes' = out.char_indexes
       /\ UNCHANGED char_boxes
       /\ last' = Call("BoundsOfMatchesUtf8", 0, TRUE, out.num_matches_with_rects, FALSE)

caretVars == <<char_origins, boundary_out, boundary_given>>

(***************************************************************************)
(* Selection boundaries with their geometry.  A boundary is [index, point, *)
(* is_rtl], its point a Point_i in device space.  The character origins    *)
(* are whole points of page space like the glyph boxes.  A function that   *)
(* reads a box pdfium did not write gives the set of its possible results. *)
(***************************************************************************)
IntMax == 2147483647

\* SelectionBoundary(index, x, y, is_rtl)
Boundary(index, x, y, is_rtl) ==
    [index |-> index, point |-> [x |-> x, y |-> y], is_rtl |-> is_rtl]

\* Rectangle_i::Center()
Center(rect) ==
    [x |-> (rect.left + rect.right) \div 2, y |-> (rect.top + rect.bottom) \div 2]

\* Page::GetRawCharBounds(char_index).  FPDFText_GetCharBox writes nothing
\* for an index outside the text, and x1, x2, y1 and y2 are then read
\* uninitialized: any four values.
GetRawCharBounds(boxes, char_index) ==
    IF char_index >= 0 /\ char_index < Len(boxes)
        THEN {DoubleRect(boxes[char_index + 1].x1, boxes[char_index + 1].y1,
                         boxes[char_index + 1].x2, boxes[char_index + 1].y2)}
        ELSE {DoubleRect(x1, y1, x2, y2) :
                  x1 \in 0..PageWidth, x2 \in 0..PageWidth,
                  y1 \in 0..PageHeight, y2 \in 0..PageHeight}

\* Page::GetCharBounds(char_index)
GetCharBounds(boxes, char_index) ==
    {ApplyPageTransform(rect) : rect \in GetRawCharBounds(boxes, char_index)}

\* Page::GetCharOrigin(char_index): x and y stay 0.0 for an index outside
\* the text.
GetCharOrigin(origins, char_index) ==
    IF char_index >= 0 /\ char_index < Len(origins)
        THEN PageToDevice(origins[char_index + 1].x, origins[char_index + 1].y)
        ELSE PageToDevice(0, 0)

\* IsRtlAtIndex guessing from the two ends of any word, one of a single
\* character included.
IsRtlAtIndexOfAnyWord(t, boxes, index) ==
    LET start_index == GetWordStartIndex(t, index)
        stop_index == GetWordStopIndex(t, index)
    IN IF stop_index - start_index <= 0
          THEN FALSE
          ELSE \E start_bounds \in GetCharBounds(boxes, start_index),
                  stop_bounds \in GetCharBounds(boxes, stop_index - 1) :
                   Center(start_bounds).x >= Center(stop_bounds).x

\* Page::IsRtlAtIndex(index).  The two characters it looks at are in the
\* text, so each has one box.
IsRtlAtIndex(t, boxes, index) ==
    LET start_index == GetWordStartIndex(t, index)
        stop_index == GetWordStopIndex(t, index)
        word_length == stop_index - start_index
    IN IF word_length <= 1
          THEN FALSE
          ELSE \E start_bounds \in GetCharBounds(boxes, start_index),
                  stop_bounds \in GetCharBounds(boxes, stop_index - 1) :
                   Center(start_bounds).x > Center(stop_bounds).x

\* Page::GetBoundaryAtIndex(index, is_rtl): the boundaries it can return.
GetBoundaryAtIndexRtl(t, boxes, origins, index, is_rtl) ==
    LET use_end_edge == index = Len(t) \/ IsWordBreak(GetUnicode(t, index))
        char_index == IF use_end_edge THEN index - 1 ELSE index
        use_right_edge == use_end_edge # is_rtl
    IN {Boundary(index,
                 IF use_right_edge THEN char_bounds.right ELSE char_bounds.left,
                 GetCharOrigin(origins, char_index).y, is_rtl) :
           char_bounds \in GetCharBounds(boxes, char_index)}

\* Page::GetBoundaryAtIndex(index): the boundaries it can return.
BoundaryAtIndex(t, boxes, origins, index) ==
    GetBoundaryAtIndexRtl(t, boxes, origins, index, IsRtlAtIndex(t, boxes, index))

\* One pass of the loop of GetBoundaryAtPoint at index: what it leaves in
\* prev_char_is_word_char, is_rtl and best, best being [boundary,
\* distance_sq], for the boundary GetBoundaryAtIndex(index, is_rtl) gave.
GetBoundaryAtPointStep(t, boxes, last_printable, point, index, prev, is_rtl, best, b) ==
    LET cur_char_is_word_char ==
            index <= last_printable /\ ~IsWordBreak(GetUnicode(t, index))
        dx == b.point.x - point.x
        dy == b.point.y - point.y
        distance_sq == dx * dx + dy * dy
    IN [prev |-> cur_char_is_word_char,
        best |-> IF (cur_char_is_word_char \/ prev) /\ distance_sq < best.distance_sq
                    THEN [boundary |-> b, distance_sq |-> distance_sq]
                    ELSE best]

\* The loop of Page::GetBoundaryAtPoint from index on: the boundaries it can
\* end with.
RECURSIVE GetBoundaryAtPointLoop(_, _, _, _, _, _, _, _, _)
GetBoundaryAtPointLoop(t, boxes, origins, last_printable, point, index, prev, is_rtl, best) ==
    IF index > last_printable + 1
        THEN {best.boundary}
        ELSE LET cur_char_is_word_char ==
                     index <= last_printable /\ ~IsWordBreak(GetUnicode(t, index))
                 rtl == IF cur_char_is_word_char /\ ~prev
                           THEN IsRtlAtIndex(t, boxes, index) ELSE is_rtl
                 tried == IF cur_char_is_word_char \/ prev
                             THEN GetBoundaryAtIndexRtl(t, boxes, origins, index, rtl)
                             ELSE {best.boundary}
             IN UNION {LET step == GetBoundaryAtPointStep(t, boxes, last_printable, point,
                                                          index, prev, rtl, best, b)
                       IN GetBoundaryAtPointLoop(t, boxes, origins, last_printable, point,
                                                 index + 1, step.prev, rtl, step.best) :
                          b \in tried}

\* GetBoundaryAtPoint keeping the last of the nearest boundaries.
BoundaryAtPointLastWins(t, boxes, origins, first_printable, last_printable, point) ==
    LET candidates ==
            UNION {GetBoundaryAtIndexRtl(t, boxes, origins, i, IsRtlAtIndex(t, boxes, i)) :
                      i \in {j \in first_printable..(last_printable + 1) :
                                 \/ ~IsWordBreak(GetUnicode(t, j))
                                 \/ j > first_printable /\ ~IsWordBreak(GetUnicode(t, j - 1))}}
        d(b) == (b.point.x - point.x) * (b.point.x - point.x)
                    + (b.point.y - point.y) * (b.point.y - point.y)
    IN IF candidates = {} THEN {Boundary(0, point.x, point.y, FALSE)}
       ELSE {b \in candidates :
                \A c \in candidates : d(b) < d(c) \/ (d(b) = d(c) /\ b.index >= c.index)}

\* Page::GetBoundaryAtPoint(point): the boundaries it can return.
BoundaryAtPoint(t, boxes, origins, first_printable, last_printable, point) ==
    GetBoundaryAtPointLoop(t, boxes, origins, last_printable, point, first_printable,
                           FALSE, FALSE,
                           [boundary |-> Boundary(0, point.x, point.y, FALSE),
                            distance_sq |-> IntMax])

\* ConstrainBoundary resolving every boundary by its index.
ConstrainedBoundaryByIndex(t, boxes, origins, first_printable, last_printable, b) ==
    BoundaryAtIndex(t, boxes, origins,
                    Min(Max(b.index, first_printable), last_printable + 1))

\* Page::ConstrainBoundary(boundary): the boundaries it can leave in
\* *boundary.
ConstrainedBoundary(t, boxes, origins, first_printable, last_printable, b) ==
    IF b.index < 0
        THEN BoundaryAtPoint(t, boxes, origins, first_printable, last_printable, b.point)
        ELSE BoundaryAtIndex(t, boxes, origins,
                             Min(Max(b.index, first_printable), last_printable + 1))

\* A call of Page::GetBoundaryAtIndex(index)
CallGetBoundaryAtIndex(index) ==
    LET e == EnsureTextPageInitialized
    IN /\ SetTextIndex(e)
       /\ boundary_given' = Boundary(index, 0, 0, FALSE)
       /\ boundary_out' \in BoundaryAtIndex(text, char_boxes, char_origins, index)
       /\ UNCHANGED char_origins
       /\ last' = Call("GetBoundaryAtIndex", index, TRUE, 0, FALSE)

\* A call of Page::GetBoundaryAtPoint(point)
CallGetBoundaryAtPoint(point) ==
    LET e == EnsureTextPageInitialized
    IN /\ SetTextIndex(e)
       /\ boundary_given' = Boundary(-1, point.x, point.y, FALSE)
       /\ boundary_out' \in BoundaryAtPoint(text, char_boxes, char_origins, e.first, e.last, point)
       /\ UNCHANGED char_origins
       /\ last' = Call("GetBoundaryAtPoint", 0, TRUE, 0, FALSE)

\* A call of Page::ConstrainBoundary(boundary) for *boundary = b
CallConstrainBoundary(b) ==
    LET e == EnsureTextPageInitialized
    IN /\ SetTextIndex(e)
       /\ boundary_given' = b
       /\ boundary_out' \in ConstrainedBoundary(text, char_boxes, char_origins, e.first, e.last, b)
       /\ UNCHANGED char_origins
       /\ last' = Call("ConstrainBoundary", b.index, TRUE, 0, FALSE)

\* No boundary has been asked for.
CaretIdle ==
    /\ char_origins = <<>>
    /\ boundary_out = Boundary(-1, 0, 0, FALSE)
    /\ boundary_given = Boundary(-1, 0, 0, FALSE)

boundsVars == <<char_boxes, rects, match_to_rect, char_indexes, caretVars>>

\* A page whose text bounds are not asked for.
BoundsIdle ==
    /\ char_boxes = <<>>
    /\ rects = <<>>
    /\ match_to_rect = <<>>
    /\ char_indexes = <<>>
    /\ CaretIdle

(***************************************************************************)
(* Specifications.                                                         *)
(***************************************************************************)
Init ==
    /\ ObjectsInit
    /\ AnnotsInit
    /\ RectInit
    /\ SearchIdle
    /\ TextIdle
    /\ SelectIdle
    /\ MatrixIdle
    /\ PointIdle
    /\ BoundsIdle
    /\ calls = 0
    /\ last = NoCall

\* The page-object store alone, on a page without annotations.
InitObjects == Init /\ fpdf_annots = <<>>

objectsFrame == <<annotVars, rectVars, searchVars, indexVars, selectVars, matrixVars, pointVars, boundsVars, calls>>

ObjectsNext ==
    \/ \E refetch \in BOOLEAN : GetPageObjects(refetch) /\ UNCHANGED objectsFrame
    \/ \E o \in CallerObjects : AddPageObject(o) /\ UNCHANGED objectsFrame
    \/ \E index \in ObjectIndices : RemovePageObject(index) /\ UNCHANGED objectsFrame
    \/ \E index \in ObjectIndices, o \in CallerObjects :
          UpdatePageObject(index, o) /\ UNCHANGED objectsFrame

SpecObjects == InitObjects /\ [][ObjectsNext]_vars

\* The annotation store alone, on a page without page objects.
InitAnnots == Init /\ fpdf_objects = <<>>

annotsFrame == <<objectVars, rectVars, searchVars, indexVars, selectVars, matrixVars, pointVars, boundsVars, calls>>

AnnotsNext ==
    \/ GetPageAnnotations /\ UNCHANGED annotsFrame
    \/ \E a \in CallerAnnotations : AddPageAnnotation(a) /\ UNCHANGED annotsFrame
    \/ \E index \in AnnotIndices : RemovePageAnnotation(index) /\ UNCHANGED annotsFrame
    \/ \E index \in AnnotIndices, a \in CallerAnnotations :
          UpdatePageAnnotation(index, a) /\ UNCHANGED annotsFrame

SpecAnnots == InitAnnots /\ [][AnnotsNext]_vars

\* Both stores of one page, calls interleaved, for MaxCalls calls.
Counted ==
    /\ calls < MaxCalls
    /\ calls' = calls + 1
    /\ UNCHANGED <<rectVars, searchVars, indexVars, selectVars, matrixVars, pointVars, boundsVars>>

StoresNext ==
    \/ \E refetch \in BOOLEAN :
          Counted /\ GetPageObjects(refetch) /\ UNCHANGED annotVars
    \/ \E o \in CallerObjects :
          Counted /\ AddPageObject(o) /\ UNCHANGED annotVars
    \/ \E index \in ObjectIndices :
          Counted /\ RemovePageObject(index) /\ UNCHANGED annotVars
    \/ \E index \in ObjectIndices, o \in CallerObjects :
          Counted /\ UpdatePageObject(index, o) /\ UNCHANGED annotVars
    \/ Counted /\ GetPageAnnotations /\ UNCHANGED objectVars
    \/ \E a \in CallerAnnotations :
          Counted /\ AddPageAnnotation(a) /\ UNCHANGED objectVars
    \/ \E index \in AnnotIndices :
          Counted /\ RemovePageAnnotation(index) /\ UNCHANGED objectVars
    \/ \E index \in AnnotIndices, a \in CallerAnnotations :
          Counted /\ UpdatePageAnnotation(index, a) /\ UNCHANGED objectVars

SpecStores == Init /\ [][StoresNext]_vars

\* The invalidation tracker of a page without page objects and annotations.
InitRect == Init /\ fpdf_objects = <<>> /\ fpdf_annots = <<>>

rectFrame == <<objectVars, annotVars, searchVars, indexVars, selectVars, matrixVars, pointVars, boundsVars, calls>>

RectNext ==
    \/ \E rect \in PageRects : NotifyInvalidRect(rect) /\ UNCHANGED rectFrame
    \/ HasInvalidRect /\ UNCHANGED rectFrame
    \/ ConsumeInvalidRect /\ UNCHANGED rectFrame

SpecRect == InitRect /\ [][RectNext]_vars

\* The search of a page without page objects and annotations.
InitSearch ==
    /\ fpdf_objects = <<>> /\ page_objects_ = <<>>
    /\ fpdf_annots = <<>> /\ annotations_ = <<>>
    /\ RectInit
    /\ SearchInit
    /\ TextLoaded
    /\ SelectIdle
    /\ MatrixIdle
    /\ PointIdle
    /\ BoundsIdle
    /\ calls = 0
    /\ last = NoCall

SearchNext ==
    FindMatchesUtf8
    /\ UNCHANGED <<objectVars, annotVars, rectVars, selectVars, matrixVars, pointVars, boundsVars,
                   calls>>

SpecSearch == InitSearch /\ [][SearchNext]_vars

\* The text index, the search and the word selection of a page without page
\* objects and annotations: a page with any text, a page whose text page
\* does not load and a page that did not load.
InitText ==
    /\ fpdf_objects = <<>> /\ page_objects_ = <<>>
    /\ fpdf_annots = <<>> /\ annotations_ = <<>>
    /\ RectInit
    /\ page_ \in BOOLEAN
    /\ text_loadable \in BOOLEAN
    /\ ~page_ => ~text_loadable
    /\ text \in IF text_loadable THEN SeqsUpTo(IndexChars, MaxText) ELSE {<<>>}
    /\ text_page_ = FALSE
    /\ first_printable_char_index_ = 0
    /\ last_printable_char_index_ = 0
    /\ ensured = [load |-> FALSE, scan |-> FALSE, failed |-> FALSE]
    /\ NotSearching
    /\ SelectIdle
    /\ MatrixIdle
    /\ PointIdle
    /\ BoundsIdle
    /\ calls = 0
    /\ last = NoCall

textFrame == <<objectVars, annotVars, rectVars, matrixVars, pointVars, boundsVars>>

\* The queries of a search of the text index: those of the search and the
\* one of a NUL character.
IndexQueries == SeqsUpTo(QueryChars, MaxQuery) \cup {<<0>>}

\* The character indices callers ask for.
CharIndices == -1..(MaxText - 1)

\* No call starts while another one runs: the loop of FindMatchesUtf8 is
\* inside one call.
Idle == ~searching /\ UNCHANGED <<textFrame, searchVars, selectVars, calls>>

TextNext ==
    \/ Idle /\ NumChars
    \/ \E char_index \in CharIndices : Idle /\ GetUnicodeAt(char_index)
    \/ Idle /\ first_printable_char_index
    \/ Idle /\ last_printable_char_index
    \/ \E q \in IndexQueries, given \in BOOLEAN :
          FindMatchesUtf8Begin(q, given) /\ UNCHANGED <<textFrame, selectVars>>
    \/ FindMatchesUtf8 /\ UNCHANGED <<textFrame, selectVars, calls>>

SpecText == InitText /\ [][TextNext]_vars

\* The word selection on the same pages.
SelectNext ==
    \/ \E char_index \in {-3} \cup CharIndices :
          SelectWordAt(char_index) /\ UNCHANGED <<textFrame, searchVars, calls>>
    \/ first_printable_char_index
          /\ UNCHANGED <<textFrame, searchVars, selectVars, calls>>

SpecSelect == InitText /\ [][SelectNext]_vars

\* The matrix of one path object and of its backing object.
InitMatrix ==
    /\ fpdf_objects = <<>> /\ page_objects_ = <<>>
    /\ fpdf_annots = <<>> /\ annotations_ = <<>>
    /\ RectInit
    /\ SearchIdle
    /\ TextIdle
    /\ SelectIdle
    /\ MatrixInit
    /\ PointIdle
    /\ BoundsIdle
    /\ calls = 0
    /\ last = NoCall

matrixFrame ==
    <<objectVars, annotVars, rectVars, searchVars, indexVars, selectVars, pointVars, boundsVars, calls>>

MatrixNext ==
    \/ GetPageToDeviceMatrix /\ UNCHANGED matrixFrame
    \/ SetDeviceToPageMatrix /\ UNCHANGED matrixFrame

SpecMatrix == InitMatrix /\ [][MatrixNext]_vars

\* The queries and the invalidation tracker of a page that did not load (an
\* out-of-range page number) and of a page that did, the latter without text
\* or with a word after a space.
InitPage ==
    /\ fpdf_objects = <<>> /\ page_objects_ = <<>>
    /\ fpdf_annots = <<>> /\ annotations_ = <<>>
    /\ RectInit
    /\ page_ \in BOOLEAN
    /\ text_loadable = page_
    /\ text \in IF page_ THEN {<<>>, <<32, 97>>} ELSE {<<>>}
    /\ text_page_ = FALSE
    /\ first_printable_char_index_ = 0
    /\ last_printable_char_index_ = 0
    /\ ensured = [load |-> FALSE, scan |-> FALSE, failed |-> FALSE]
    /\ NotSearching
    /\ SelectIdle
    /\ MatrixIdle
    /\ PointIdle
    /\ BoundsIdle
    /\ calls = 0
    /\ last = NoCall

\* The links FPDFLink_Enumerate finds on a loaded page.
MaxLinks == 1

OnTextIndex == UNCHANGED <<textFrame, searchVars, selectVars, calls>>

OnGeometry ==
    UNCHANGED <<objectVars, annotVars, searchVars, indexVars, selectVars, matrixVars,
                pointVars, boundsVars, calls>>

PageNext ==
    \/ NumChars /\ OnTextIndex
    \/ \E char_index \in {0} : GetUnicodeAt(char_index) /\ OnTextIndex
    \/ first_printable_char_index /\ OnTextIndex
    \/ last_printable_char_index /\ OnTextIndex
    \/ CallWidth /\ OnGeometry
    \/ CallHeight /\ OnGeometry
    \/ CallDimensions /\ OnGeometry
    \/ \E num_links \in 0..MaxLinks : GetGotoLinks(num_links) /\ OnGeometry
    \/ \E rect \in PageRects : NotifyInvalidRect(rect) /\ OnGeometry
    \/ HasInvalidRect /\ OnGeometry
    \/ ConsumeInvalidRect /\ OnGeometry

SpecPage == InitPage /\ [][PageNext]_vars

\* One highlight of up to MaxQuads quads, updated again and again with up to
\* MaxQuads bounds, at its index and past the end.
MaxQuads == 3

HighlightBounds == SeqsUpTo({1, 2}, MaxQuads)

Highlight(bounds) == [type |-> "Highlight", attr |-> 0, items |-> bounds]

InitHighlight ==
    /\ fpdf_objects = <<>> /\ page_objects_ = <<>>
    /\ fpdf_annots \in {<<LoadedAnnot("Highlight", 0, quads)>> : quads \in HighlightBounds}
    /\ annotations_ = <<>>
    /\ RectInit
    /\ SearchIdle
    /\ TextIdle
    /\ SelectIdle
    /\ MatrixIdle
    /\ PointIdle
    /\ BoundsIdle
    /\ calls = 0
    /\ last = NoCall

HighlightNext ==
    \/ GetPageAnnotations /\ UNCHANGED annotsFrame
    \/ \E index \in 0..1, bounds \in HighlightBounds :
          UpdatePageAnnotation(index, Highlight(bounds)) /\ UNCHANGED annotsFrame

SpecHighlight == InitHighlight /\ [][HighlightNext]_vars

\* The bounds of the text of a loaded page: any text of letters and line
\* feeds, each character with any of the glyph boxes.
InitBounds ==
    /\ fpdf_objects = <<>> /\ page_objects_ = <<>>
    /\ fpdf_annots = <<>> /\ annotations_ = <<>>
    /\ RectInit
    /\ page_ = TRUE
    /\ text_loadable = TRUE
    /\ text \in SeqsUpTo(BoundsChars, MaxText)
    /\ char_boxes \in {boxes \in SeqsOfLen(GlyphBoxes, Len(text)) :
                           \A k \in 1..Len(text) : boxes[k] \in BoxesOf(text[k])}
    /\ text_page_ = FALSE
    /\ first_printable_char_index_ = 0
    /\ last_printable_char_index_ = 0
    /\ ensured = [load |-> FALSE, scan |-> FALSE, failed |-> FALSE]
    /\ NotSearching
    /\ SelectIdle
    /\ MatrixIdle
    /\ PointIdle
    /\ rects = <<>>
    /\ match_to_rect = <<>>
    /\ char_indexes = <<>>
    /\ CaretIdle
    /\ calls = 0
    /\ last = NoCall

boundsFrame ==
    <<objectVars, annotVars, rectVars, searchVars, selectVars, matrixVars, pointVars,
      caretVars, calls>>

\* The queries whose matches are bounded: of one and of two letters.
BoundsQueries == SeqsUpTo({97}, MaxQuery)

\* The vectors a caller passes as rects: an empty one and one that holds a
\* rectangle already.
GivenRects == {<<>>, <<kEmptyIntRectangle>>}

\* The calls on a page up to the first that loads its text page.
BoundsNext ==
    \/ \E start_index \in 0..Len(text), stop_index \in 0..Len(text), given \in GivenRects :
          ~text_page_ /\ GetTextBounds(start_index, stop_index, given)
          /\ UNCHANGED boundsFrame
    \/ \E q \in BoundsQueries, given \in GivenRects :
          ~text_page_ /\ BoundsOfMatchesUtf8(q, given) /\ UNCHANGED boundsFrame

SpecBounds == InitBounds /\ [][BoundsNext]_vars

\* The glyphs of a letter: at the left and at the right of the first line,
\* and one on the second line whose box goes below its baseline.
LetterGlyphs ==
    {[box |-> GlyphBox(0, 1, 2, 3), origin |-> [x |-> 0, y |-> 2]],
     [box |-> GlyphBox(1, 2, 2, 3), origin |-> [x |-> 1, y |-> 2]],
     [box |-> GlyphBox(0, 1, 0, 2), origin |-> [x |-> 0, y |-> 1]]}

\* The glyphs of a space: without a box, and with one on the first line.
SpaceGlyphs ==
    {[box |-> GlyphBox(0, 0, 0, 0), origin |-> [x |-> 1, y |-> 2]],
     [box |-> GlyphBox(1, 2, 2, 3), origin |-> [x |-> 1, y |-> 2]]}

GlyphsOf(codepoint) == IF IsWordBreak(codepoint) THEN SpaceGlyphs ELSE LetterGlyphs

\* The characters of a page whose boundaries are asked for: 'a' and the space.
CaretChars == {97, 32}

\* The selection boundaries of a loaded page: any text of letters and
\* spaces, each character with any of its glyphs.
InitCaret ==
    /\ fpdf_objects = <<>> /\ page_objects_ = <<>>
    /\ fpdf_annots = <<>> /\ annotations_ = <<>>
    /\ RectInit
    /\ page_ = TRUE
    /\ text_loadable = TRUE
    /\ text \in SeqsUpTo(CaretChars, MaxText)
    /\ \E glyphs \in SeqsOfLen(LetterGlyphs \cup SpaceGlyphs, Len(text)) :
          /\ \A k \in 1..Len(text) : glyphs[k] \in GlyphsOf(text[k])
          /\ char_boxes = [k \in 1..Len(text) |-> glyphs[k].box]
          /\ char_origins = [k \in 1..Len(text) |-> glyphs[k].origin]
    /\ text_page_ = FALSE
    /\ first_printable_char_index_ = 0
    /\ last_printable_char_index_ = 0
    /\ ensured = [load |-> FALSE, scan |-> FALSE, failed |-> FALSE]
    /\ NotSearching
    /\ SelectIdle
    /\ MatrixIdle
    /\ PointIdle
    /\ rects = <<>>
    /\ match_to_rect = <<>>
    /\ char_indexes = <<>>
    /\ boundary_out = Boundary(-1, 0, 0, FALSE)
    /\ boundary_given = Boundary(-1, 0, 0, FALSE)
    /\ calls = 0
    /\ last = NoCall

caretFrame ==
    <<objectVars, annotVars, rectVars, searchVars, selectVars, matrixVars, pointVars,
      char_boxes, rects, match_to_rect, char_indexes, calls>>

\* The points callers pass: on the page and on its edges, device space.
CaretPoints == [x : 0..PageWidth, y : 0..PageHeight]

\* The calls on a page up to the first that loads its text page.
CaretNext ==
    \/ \E index \in 0..Len(text) :
          ~text_page_ /\ CallGetBoundaryAtIndex(index) /\ UNCHANGED caretFrame
    \/ \E point \in CaretPoints :
          ~text_page_ /\ CallGetBoundaryAtPoint(point) /\ UNCHANGED caretFrame
    \/ \E index \in (-1)..(Len(text) + 1), point \in CaretPoints :
          /\ ~text_page_
          /\ CallConstrainBoundary(Boundary(index, point.x, point.y, FALSE))
          /\ UNCHANGED caretFrame

SpecCaret == InitCaret /\ [][CaretNext]_vars

\* The point conversions of a loaded page without page objects and
\* annotations.
pointFrame ==
    <<objectVars, annotVars, rectVars, searchVars, indexVars, selectVars, matrixVars, boundsVars, calls>>

PointNext ==
    \/ \E in \in Points : CallPageToDevice(in) /\ UNCHANGED pointFrame
    \/ \E in \in Points \cup {device_point} :
          CallDeviceToPage(in) /\ UNCHANGED pointFrame

SpecPoint == InitRect /\ [][PointNext]_vars

(***************************************************************************)
(* What a full read returns in the current state.                          *)
(***************************************************************************)
\* GetPageObjects(refetch = true)
FullReadObjects(cache, objects) == PopulatePageObjects(cache, objects, TRUE)

\* GetPageAnnotations()
FullReadAnnots(annots) == PopulateAnnotations(annots)

(***************************************************************************)
(* C1: after a successful AddPageObject (AddPageAnnotation) the next full  *)
(* read has exactly one more element than a full read before the add, the  *)
(* elements at the old indices are as they were, and the new element, of   *)
(* the type that was added, sits at the index the add returned, which is   *)
(* the element count before the add.                                       *)
(***************************************************************************)
C1_ObjectAdd(o) ==
    LET before == FullReadObjects(page_objects_, fpdf_objects)
        after == FullReadObjects(page_objects_', fpdf_objects')
    IN /\ Len(after) = Len(before) + 1
       /\ \A k \in 1..Len(before) : after[k] = before[k]
       /\ last'.ret = Len(before)
       /\ after[last'.ret + 1] = AsCached(o)

C1_AnnotAdd(a) ==
    LET before == FullReadAnnots(fpdf_annots)
        after == FullReadAnnots(fpdf_annots')
    IN /\ Len(after) = Len(before) + 1
       /\ \A k \in 1..Len(before) : after[k] = before[k]
       /\ last'.ret = Len(before)
       /\ after[last'.ret + 1].type = a.type

C1_AddThenFullRead ==
    [][ /\ (last'.op = "AddPageObject" /\ last'.ok) =>
             \A o \in CallerObjects : AddPageObject(o) => C1_ObjectAdd(o)
        /\ (last'.op = "AddPageAnnotation" /\ last'.ok) =>
             \A a \in CallerAnnotations : AddPageAnnotation(a) => C1_AnnotAdd(a) ]_vars

\* Both kinds of add have succeeded, each on a store that held one element.
C1_Witness ==
    /\ last.op = "AddPageAnnotation" /\ last.ok /\ last.ret = 1
    /\ Len(FullReadAnnots(fpdf_annots)) = 2
    /\ Len(fpdf_objects) = 2 /\ fpdf_objects[1] = Loaded("Path", 1)

(***************************************************************************)
(* C2: after a successful RemovePageObject(i) (RemovePageAnnotation(i))    *)
(* the next full read has exactly one element fewer than a full read       *)
(* before the removal, every element below i is unchanged and every        *)
(* element at an old index j > i is now at j - 1; a populated page-object  *)
(* cache read without refetch shows the same.                              *)
(***************************************************************************)
C2_Removed(before, after, index) ==
    /\ Len(after) = Len(before) - 1
    /\ \A k \in 1..index : after[k] = before[k]
    /\ \A k \in (index + 2)..Len(before) : after[k - 1] = before[k]

C2_RemoveThenFullRead ==
    [][ /\ (last'.op = "RemovePageObject" /\ last'.ok) =>
             /\ C2_Removed(FullReadObjects(page_objects_, fpdf_objects),
                           FullReadObjects(page_objects_', fpdf_objects'),
                           last'.index)
             /\ page_objects_ # <<>> =>
                   C2_Removed(PopulatePageObjects(page_objects_, fpdf_objects, FALSE),
                              PopulatePageObjects(page_objects_', fpdf_objects', FALSE),
                              last'.index)
        /\ (last'.op = "RemovePageAnnotation" /\ last'.ok) =>
             C2_Removed(FullReadAnnots(fpdf_annots), FullReadAnnots(fpdf_annots'),
                        last'.index) ]_vars

\* The first of three cached page objects has been removed.
C2_Witness ==
    /\ last.op = "RemovePageObject" /\ last.ok /\ last.index = 0
    /\ page_objects_ = <<Null, [type |-> "Text", attr |-> 0]>>

(***************************************************************************)
(* C3: an AddPageObject whose backing object cannot be created returns -1, *)
(* leaves the object count of the backing document and the cache as they   *)
(* were, and does not disturb later adds: a successful add returns the     *)
(* object count before it and raises that count by one.                    *)
(***************************************************************************)
C3_FailedAddChangesNothing ==
    [][ /\ (last'.op = "AddPageObject" /\ ~last'.ok) =>
             /\ last'.ret = -1
             /\ fpdf_objects' = fpdf_objects
             /\ page_objects_' = page_objects_
        /\ (last'.op = "AddPageObject" /\ last'.ok) =>
             /\ last'.ret = Len(fpdf_objects)
             /\ Len(fpdf_objects') = Len(fpdf_objects) + 1 ]_vars

\* An add has failed on a page that holds an added object and a populated cache.
C3_Witness ==
    /\ last.op = "AddPageObject" /\ ~last.ok /\ last.ret = -1
    /\ Len(fpdf_objects) = 2 /\ fpdf_objects[1] = Loaded("Path", 1)
    /\ Len(page_objects_) = 2

(***************************************************************************)
(* C4 as stated: whenever an add, remove or update of either store fails,  *)
(* the cache holds exactly the slots it held before the call.              *)
(***************************************************************************)
MutatingCalls ==
    {"AddPageObject", "RemovePageObject", "UpdatePageObject",
     "AddPageAnnotation", "RemovePageAnnotation", "UpdatePageAnnotation"}

C4_CacheUntouchedOnFailure ==
    [][ (last'.op \in MutatingCalls /\ ~last'.ok) =>
            /\ page_objects_' = page_objects_
            /\ annotations_' = annotations_ ]_vars

(***************************************************************************)
(* C4, amended: a failed add, remove or update of the page-object store    *)
(* and a failed AddPageAnnotation leave the cache exactly as it was; a     *)
(* failed RemovePageAnnotation or UpdatePageAnnotation leaves the          *)
(* annotation cache equal to a fresh enumeration of the backing            *)
(* annotations as they were before the call, whatever it held before.      *)
(***************************************************************************)
C4_FailureLeavesCache ==
    [][ /\ (last'.op \in {"AddPageObject", "RemovePageObject", "UpdatePageObject"}
              /\ ~last'.ok) =>
             /\ page_objects_' = page_objects_
             /\ fpdf_objects' = fpdf_objects
        /\ (last'.op = "AddPageAnnotation" /\ ~last'.ok) =>
             annotations_' = annotations_
        /\ (last'.op \in {"RemovePageAnnotation", "UpdatePageAnnotation"}
              /\ ~last'.ok) =>
             annotations_' = PopulateAnnotations(fpdf_annots) ]_vars

\* The first call on a page is a RemovePageAnnotation that fails, and the
\* cache, empty before it, now holds the page's annotations.
C4_Witness ==
    /\ calls = 1
    /\ last.op = "RemovePageAnnotation" /\ ~last.ok
    /\ annotations_ # <<>>

(***************************************************************************)
(* C5 as stated: after a successful UpdatePageObject(i, o) a read with     *)
(* refetch returns the same number of objects, with the attributes of o at *)
(* index i.                                                                *)
(***************************************************************************)
C5_RefetchShowsUpdate ==
    [][ (last'.op = "UpdatePageObject" /\ last'.ok) =>
            \A o \in CallerObjects :
                UpdatePageObject(last'.index, o) =>
                    LET after == FullReadObjects(page_objects_', fpdf_objects')
                    IN /\ Len(after) = Len(fpdf_objects)
                       /\ after[last'.index + 1] = AsCached(o) ]_vars

(***************************************************************************)
(* C5, amended: UpdatePageObject returns false and changes nothing when    *)
(* the index is negative or not below the object count of the backing      *)
(* document, whatever the cache holds; a successful update changes the     *)
(* backing object at that index only and leaves the cache alone, so a read *)
(* without refetch of a populated cache returns what it returned before;   *)
(* a read with refetch returns the same number of objects and, when the    *)
(* updated backing object populates, the attributes of o at that index.    *)
(***************************************************************************)
C5_UpdateLeavesCacheStale ==
    [][ /\ (last'.op = "UpdatePageObject"
              /\ (last'.index < 0 \/ last'.index >= Len(fpdf_objects))) =>
             /\ ~last'.ok
             /\ fpdf_objects' = fpdf_objects
             /\ page_objects_' = page_objects_
        /\ (last'.op = "UpdatePageObject" /\ last'.ok) =>
             /\ page_objects_' = page_objects_
             /\ page_objects_ # <<>> =>
                    PopulatePageObjects(page_objects_', fpdf_objects', FALSE)
                        = PopulatePageObjects(page_objects_, fpdf_objects, FALSE)
             /\ Len(fpdf_objects') = Len(fpdf_objects)
             /\ \A k \in 1..Len(fpdf_objects) :
                    k # last'.index + 1 => fpdf_objects'[k] = fpdf_objects[k]
             /\ \A o \in CallerObjects :
                    UpdatePageObject(last'.index, o) =>
                        LET after == FullReadObjects(page_objects_', fpdf_objects')
                        IN /\ Len(after) = Len(fpdf_objects)
                           /\ PopulateFromFPDFInstance(fpdf_objects'[last'.index + 1]) # Null
                                 => after[last'.index + 1] = AsCached(o) ]_vars

\* An update has succeeded under a populated cache, whose slot is now stale.
C5_Witness ==
    /\ last.op = "UpdatePageObject" /\ last.ok
    /\ page_objects_ # <<>>
    /\ page_objects_[last.index + 1].attr # fpdf_objects[last.index + 1].attr
    /\ PopulateFromFPDFInstance(fpdf_objects[last.index + 1]) # Null

C6_ReadBack(old, new, a) ==
    /\ new.type = a.type
    /\ new.attr = a.attr
    /\ a.type = "Stamp" => new.items = a.items
    /\ (a.type = "FreeText"
          /\ \A k \in 1..Len(a.items) :
                a.items[k] > 0 /\ a.items[k] < Pow2(WCharBits)) =>
            new.items = a.items
    /\ (a.type = "Highlight" /\ Len(a.items) >= Len(old.items)) =>
            new.items = a.items
    /\ (a.type = "Highlight" /\ Len(a.items) < Len(old.items)) =>
            /\ Len(new.items) = Len(old.items)
            /\ \A k \in 1..Len(old.items) :
                  new.items[k] = IF k <= Len(a.items) THEN a.items[k] ELSE ZeroQuad

C7_ConsumeReturnsCover ==
    [][ last'.op = "ConsumeInvalidRect" =>
            /\ last'.rect = covered
            /\ IsEmpty(invalid_rect_') ]_vars

(***************************************************************************)
(* C8: NotifyInvalidRect with a rectangle that has a negative coordinate   *)
(* or no area (left = right, top = bottom, or a right or bottom of zero    *)
(* below its left or top) is dropped by the entry check, and a dropped     *)
(* rectangle changes neither the accumulated rectangle nor what            *)
(* HasInvalidRect answers, whatever the tracker holds.                     *)
(***************************************************************************)
C8_Negative(rect) ==
    rect.left < 0 \/ rect.top < 0 \/ rect.right < 0 \/ rect.bottom < 0

C8_NoArea(rect) ==
    \/ rect.left = rect.right
    \/ rect.top = rect.bottom
    \/ (rect.right = 0 /\ rect.right < rect.left)
    \/ (rect.bottom = 0 /\ rect.bottom < rect.top)

C8_RejectedIsNoOp ==
    /\ [](\A rect \in PageRects :
            (C8_Negative(rect) \/ C8_NoArea(rect)) => Rejects(rect))
    /\ [][ (last'.op = "NotifyInvalidRect" /\ ~last'.ok) =>
              /\ invalid_rect_' = invalid_rect_
              /\ IsEmpty(invalid_rect_') = IsEmpty(invalid_rect_) ]_vars

\* A rectangle has been dropped while the tracker held one.
C8_Witness ==
    /\ last.op = "NotifyInvalidRect" /\ ~last.ok
    /\ ~IsEmpty(invalid_rect_)

(***************************************************************************)
(* C9: ConsumeInvalidRect returns the accumulated rectangle and resets the *)
(* tracker to the empty rectangle {0, 0, 0, 0}, so that HasInvalidRect is  *)
(* false and a ConsumeInvalidRect that follows at once returns             *)
(* {0, 0, 0, 0}.                                                           *)
(***************************************************************************)
C9_ConsumeResets ==
    [][ last'.op = "ConsumeInvalidRect" =>
            /\ last'.rect = invalid_rect_
            /\ invalid_rect_' = kEmptyIntRectangle
            /\ IsEmpty(invalid_rect_')
            /\ last.op = "ConsumeInvalidRect" => last'.rect = IntRect(0, 0, 0, 0) ]_vars

\* A consume has returned an accumulated rectangle and left the tracker empty.
C9_Witness ==
    /\ last.op = "ConsumeInvalidRect"
    /\ ~IsEmpty(last.rect)
    /\ invalid_rect_ = kEmptyIntRectangle

(***************************************************************************)
(* C10: FindMatch(query, start, stop) with a query that is not empty       *)
(* returns true exactly when some candidate m in [start, stop - len(query)]*)
(* satisfies IsMatch(query, m, stop), and then reports the match of the    *)
(* smallest such m; an empty query gives false for every start and stop.   *)
(* In the text "Hello World" the query "world" has exactly one match,      *)
(* which starts at the index of 'W'.                                       *)
(***************************************************************************)
HelloWorld == <<72, 101, 108, 108, 111, 32, 87, 111, 114, 108, 100>>
World == <<119, 111, 114, 108, 100>>

C10_Candidates == {m \in page_start..(page_stop - Len(query)) :
                      IsMatch(text, query, m, page_stop).ok}

C10_FindMatchIsFirstMatch ==
    /\ [](/\ FindMatch(HelloWorld, World, 0, Len(HelloWorld))
                = [ok |-> TRUE, first |-> 6, second |-> 11]
          /\ ~FindMatch(HelloWorld, World, 11, Len(HelloWorld)).ok)
    /\ [][ last'.op = "FindMatch" =>
              /\ query # <<>> => (last'.ok <=> C10_Candidates # {})
              /\ query = <<>> => ~last'.ok
              /\ last'.ok =>
                    /\ match'[1] \in C10_Candidates
                    /\ \A m \in C10_Candidates : match'[1] <= m
                    /\ match' = <<match'[1],
                                  IsMatch(text, query, match'[1], page_stop).second>> ]_vars

\* A query of two characters was found at index 1 of a text whose first
\* character does not start a match.
C10_Witness ==
    /\ last.op = "FindMatch" /\ last.ok
    /\ Len(query) = 2
    /\ NormalizeForSearch(GetUnicode(text, 0)) # query[1]
    /\ match = <<1, 3>>

(***************************************************************************)
(* C11: every match FindMatchesUtf8 produces is a non-empty range inside   *)
(* [first_printable_char_index, last_printable_char_index + 1] that starts *)
(* at or after the stop of the match before it, so the matches are in      *)
(* strictly increasing order and do not overlap; every turn of the loop    *)
(* that finds a match moves the start of the search forward, so the loop   *)
(* ends after at most one match per character of the printable range; and  *)
(* the count returned is the number of ranges appended to the vector the   *)
(* caller passed.                                                          *)
(***************************************************************************)
C11_InRange(m) ==
    /\ m[1] < m[2]
    /\ first_printable_char_index_ <= m[1]
    /\ m[2] <= last_printable_char_index_ + 1

C11_Produced ==
    /\ num_matches <= Max(0, last_printable_char_index_ + 1 - first_printable_char_index_)
    /\ matches_given =>
          /\ Len(matches) = num_matches
          /\ \A k \in 1..Len(matches) : C11_InRange(matches[k])
          /\ \A k \in 2..Len(matches) : matches[k - 1][2] <= matches[k][1]

C11_MatchesDoNotOverlap ==
    /\ []C11_Produced
    /\ [][ (last'.op = "FindMatch" /\ last'.ok) =>
              /\ C11_InRange(match')
              /\ page_start <= match'[1]
              /\ page_start < page_start'
              /\ last'.ret = num_matches + 1 ]_vars

\* A search has ended after two matches, the first at the first printable
\* character, which is not the first character of the page.
C11_Witness ==
    /\ ~searching /\ matches_given
    /\ num_matches = 2 /\ Len(matches) = 2
    /\ first_printable_char_index_ > 0
    /\ matches[1][1] = first_printable_char_index_

(***************************************************************************)
(* C12: SelectWordAt returns false and leaves *start and *stop as they     *)
(* were when pdfium finds no character at the point (a negative index) or  *)
(* the character found is a word break; otherwise it returns true with     *)
(* start.index = GetWordStartIndex(c) and stop.index = GetWordStopIndex(c) *)
(* for the character c found: ConstrainBoundary does not move them, and    *)
(* [start.index, stop.index) holds c and no word break.                    *)
(***************************************************************************)
C12_SelectsTheWord ==
    [][ last'.op = "SelectWordAt" =>
          LET c == last'.index
          IN IF c < 0 \/ IsWordBreak(TextUnicode(text_page_', c))
               THEN /\ ~last'.ok
                    /\ UNCHANGED <<start_boundary, stop_boundary>>
               ELSE /\ last'.ok
                    /\ start_boundary'.index = GetWordStartIndex(text, c)
                    /\ stop_boundary'.index = GetWordStopIndex(text, c)
                    /\ start_boundary'.index <= c /\ c < stop_boundary'.index
                    /\ \A i \in start_boundary'.index..(stop_boundary'.index - 1) :
                          ~IsWordBreak(GetUnicode(text, i)) ]_vars

\* A word of two characters was selected that starts after a word break and
\* stops at the end of the printable range.
C12_Witness ==
    /\ last.op = "SelectWordAt" /\ last.ok
    /\ start_boundary.index > 0
    /\ start_boundary.index = first_printable_char_index_
    /\ stop_boundary.index = start_boundary.index + 2
    /\ stop_boundary.index = last_printable_char_index_ + 1

C14_PointRoundTrip ==
    [][ (/\ last.op = "PageToDevice"
         /\ last'.op = "DeviceToPage"
         /\ device_point' = device_point) =>
            page_point' = page_point ]_vars

(***************************************************************************)
(* C15: on a page whose backing page is null every query gives its         *)
(* sentinel: NumChars() is -1, GetUnicode(0) is 0, Width() and Height()    *)
(* are 0, Dimensions() is {0, 0, 0, 0}, GetGotoLinks() is empty, the first *)
(* and the last printable index are -1, and HasInvalidRect() is false,     *)
(* also after any NotifyInvalidRect calls: the tracker stays empty.        *)
(***************************************************************************)
C15_Sentinel ==
    /\ last'.op = "NumChars" => last'.ret = -1
    /\ (last'.op = "GetUnicode" /\ last'.index = 0) => last'.ret = 0
    /\ last'.op \in {"Width", "Height"} => last'.ret = 0
    /\ last'.op = "Dimensions" => last'.rect = IntRect(0, 0, 0, 0)
    /\ last'.op = "GetGotoLinks" => last'.ret = 0
    /\ last'.op \in {"first_printable_char_index", "last_printable_char_index"} =>
          last'.ret = -1
    /\ last'.op = "HasInvalidRect" => ~last'.ok

C15_NullPageGivesSentinels ==
    /\ [](~page_ => IsEmpty(invalid_rect_) /\ ~text_page_)
    /\ [][~page_ => C15_Sentinel]_vars

\* NotifyInvalidRect has taken a rectangle that passed its entry check on a
\* null page whose text index was asked for, and the tracker is still empty.
C15_Witness ==
    /\ ~page_
    /\ last.op = "NotifyInvalidRect" /\ last.ok
    /\ IsEmpty(invalid_rect_)
    /\ first_printable_char_index_ = -1

(***************************************************************************)
(* C16: updating a highlight of oldCount quads with newCount bounds writes *)
(* the new bounds over quads [0, min(oldCount, newCount)), appends the     *)
(* extra bounds in order when newCount > oldCount and sets the surplus     *)
(* quads to the all-zero quad when newCount < oldCount; the quad count     *)
(* afterwards is max(oldCount, newCount) and never decreases.              *)
(***************************************************************************)
C16_Resynced(old, new, bounds) ==
    /\ Len(new) = IF Len(old) > Len(bounds) THEN Len(old) ELSE Len(bounds)
    /\ \A k \in 1..Len(bounds) : new[k] = bounds[k]
    /\ \A k \in (Len(bounds) + 1)..Len(old) : new[k] = ZeroQuad

C16_QuadsAreResynced ==
    /\ [][ (last'.op = "UpdatePageAnnotation" /\ last'.ok) =>
              \A bounds \in HighlightBounds :
                  UpdatePageAnnotation(last'.index, Highlight(bounds)) =>
                      C16_Resynced(fpdf_annots[last'.index + 1].items,
                                   fpdf_annots'[last'.index + 1].items, bounds) ]_vars
    /\ [][ Len(fpdf_annots') = Len(fpdf_annots)
            /\ \A k \in 1..Len(fpdf_annots) :
                  Len(fpdf_annots'[k].items) >= Len(fpdf_annots[k].items) ]_vars

\* A highlight of three quads has been shrunk to one bound: three quads
\* remain, the second and the third zeroed.
C16_Witness ==
    /\ last.op = "UpdatePageAnnotation" /\ last.ok
    /\ fpdf_annots[1].items = <<1, ZeroQuad, ZeroQuad>>

(***************************************************************************)
(* C17 as stated: the text index is initialised at most once and a failure *)
(* is sticky: once FPDFText_LoadPage has failed, both printable indices    *)
(* read -1 on every later call and no later call loads the text page or    *)
(* scans for the printable range again; once the text page is loaded the   *)
(* two indices are not computed again.                                     *)
(***************************************************************************)
C17_FailureReadsMinusOne ==
    [][ ensured.failed =>
            /\ first_printable_char_index_' = -1
            /\ last_printable_char_index_' = -1
            /\ (last'.op \in {"first_printable_char_index", "last_printable_char_index"} =>
                    last'.ret = -1) ]_vars

C17_NoScanAfterFailure == [][ensured.failed => ~ensured'.scan]_vars

C17_NotRecomputedAfterSuccess ==
    [][ text_page_ =>
            /\ ~ensured'.load /\ ~ensured'.scan
            /\ first_printable_char_index_' = first_printable_char_index_
            /\ last_printable_char_index_' = last_printable_char_index_ ]_vars

C17_InitialisedAtMostOnce ==
    /\ C17_FailureReadsMinusOne
    /\ C17_NoScanAfterFailure
    /\ C17_NotRecomputedAfterSuccess
    /\ [][ensured.failed => ~ensured'.load]_vars

(***************************************************************************)
(* C18: after a GetPageObjects that populates (on an empty cache, or with  *)
(* refetch, also over a populated cache) the cache has one slot for each   *)
(* backing page object, in backing order, and the slot of every object of  *)
(* an unknown type or whose population failed is null.                     *)
(***************************************************************************)
C18_Populates == last'.op = "GetPageObjects" /\ (last'.refetch \/ page_objects_ = <<>>)

C19_Failed(b) ==
    \/ b.type \notin AnnotationTypes
    \/ b.type \in {"Stamp", "FreeText"} /\ ~b.hasRect
    \/ ~b.populates

C19_OneSlotEach ==
    [][ last'.op = "GetPageAnnotations" =>
            /\ Len(annotations_') = Len(fpdf_annots)
            /\ \A k \in 1..Len(fpdf_annots) :
                  ~C19_Failed(fpdf_annots[k]) =>
                      annotations_'[k] = PopulateFromPdfiumInstance(fpdf_annots[k]) ]_vars

C19_FailedSlotsAreNull ==
    /\ C19_OneSlotEach
    /\ [][ last'.op = "GetPageAnnotations" =>
              \A k \in 1..Len(fpdf_annots) :
                  C19_Failed(fpdf_annots[k]) => annotations_'[k] = NullAnnotation ]_vars

C19_UnsupportedSlotsAreNull ==
    [][ last'.op = "GetPageAnnotations" =>
            \A k \in 1..Len(fpdf_annots) :
                (\/ fpdf_annots[k].type \notin AnnotationTypes
                 \/ fpdf_annots[k].type \in {"Stamp", "FreeText"} /\ ~fpdf_annots[k].hasRect) =>
                    annotations_'[k] = NullAnnotation ]_vars

(***************************************************************************)
(* C20 as stated: AddPageObject and AddPageAnnotation append the new       *)
(* element to their cache only if the cache was non-empty before the call: *)
(* no add turns an empty cache into a non-empty one.                       *)
(***************************************************************************)
C20_ObjectAdd ==
    (last'.op = "AddPageObject") =>
        \A o \in CallerObjects :
            AddPageObject(o) =>
                page_objects_' = IF last'.ok /\ page_objects_ # <<>>
                                    THEN Append(page_objects_, AsCached(o))
                                    ELSE page_objects_

C21_Linear ==
    /\ device_matrix_'.a = fpdf_matrix.a
    /\ device_matrix_'.b = -fpdf_matrix.b
    /\ device_matrix_'.c = -fpdf_matrix.c
    /\ device_matrix_'.d = fpdf_matrix.d

C21_PathIsPureFlip ==
    [][ last'.op = "GetPageToDeviceMatrix" =>
            /\ C21_Linear
            /\ device_matrix_'.e = fpdf_matrix.e
            /\ device_matrix_'.f = PageHeight - fpdf_matrix.f ]_vars

(***************************************************************************)
(* C21, amended: the device matrix of a path object is derived from its    *)
(* page matrix as a = page.a, b = -page.b, c = -page.c, d = page.d,        *)
(* e = page.e + k*page.c, f = pageHeight - page.f - k*page.d with          *)
(* k = pageHeight; it is the pure flip e = page.e, f = pageHeight - page.f *)
(* only for a page matrix with c = 0 and d = 0.                            *)
(***************************************************************************)
C21_PathFactorIsPageHeight ==
    [][ last'.op = "GetPageToDeviceMatrix" =>
            /\ C21_Linear
            /\ device_matrix_'.e = fpdf_matrix.e + PageHeight * fpdf_matrix.c
            /\ device_matrix_'.f = PageHeight - fpdf_matrix.f - PageHeight * fpdf_matrix.d
            /\ (device_matrix_'.e = fpdf_matrix.e
                  /\ device_matrix_'.f = PageHeight - fpdf_matrix.f)
                <=> (fpdf_matrix.c = 0 /\ fpdf_matrix.d = 0) ]_vars

\* The device matrix of a path whose page matrix neither shears nor moves
\* (a = d = 1, the rest 0) has been read: it is the identity, f = 0, where a
\* pure flip would give f = pageHeight.
C21_Witness ==
    /\ last.op = "GetPageToDeviceMatrix"
    /\ fpdf_matrix = Identity
    /\ device_matrix_ = Identity
    /\ device_matrix_.f # PageHeight - fpdf_matrix.f

(***************************************************************************)
(* C22: IsMatch consumes a page character without advancing the query      *)
(* pointer only when the character does not equal the next query           *)
(* character after normalization, is skippable, and a query character has  *)
(* matched already; a non-matching character at the start of the match, or *)
(* a non-matching non-skippable one anywhere, fails the match; after a     *)
(* skip the match fails if fewer page characters remain before stop than   *)
(* query characters remain.  A successful match begins and ends on the     *)
(* characters that matched the first and the last query character.         *)
(***************************************************************************)
C22_Matches(pass) == NormalizeForSearch(pass.page_char) = query[pass.query_index + 1]

C22_PassesAreRight(steps) ==
    \A k \in 1..Len(steps) :
        LET pass == steps[k]
        IN /\ pass.step \in {"skip", "no_room"} =>
                 /\ ~C22_Matches(pass)
                 /\ IsSkippableForSearch(pass.page_char, pass.prev_char)
                 /\ pass.query_index > 0
           /\ (~C22_Matches(pass)
                 /\ (pass.query_index = 0
                       \/ ~IsSkippableForSearch(pass.page_char, pass.prev_char))) =>
                 pass.step = "mismatch"
           /\ pass.step \in {"skip", "no_room"} =>
                 (pass.step = "no_room"
                    <=> (page_stop - (pass.page_index + 1))
                            < (Len(query) - pass.query_index))
           /\ pass.step \in {"no_room", "mismatch"} => k = Len(steps)
           /\ C22_Matches(pass) <=> pass.step = "advance"

C22_ResultIsRight(m, steps) ==
    LET result == IsMatch(text, query, m, page_stop)
        final == steps[Len(steps)]
    IN /\ steps # <<>>
       /\ result.ok <=> final.step = "advance"
       /\ result.ok =>
             /\ result.first = m /\ result.second = final.page_index + 1
             /\ steps[1].page_index = m /\ steps[1].step = "advance"
             /\ steps[1].query_index = 0
             /\ final.query_index = Len(query) - 1

C22_SkipsOnlyInsideAMatch ==
    \A m \in FindMatchCalls(text, query, page_start, page_stop) :
        LET steps == IsMatchSteps(text, query, page_stop, m, 0, 0)
        IN C22_PassesAreRight(steps) /\ C22_ResultIsRight(m, steps)

\* FindMatchesUtf8 has found a match in which IsMatch skipped an accent
\* between the two query characters.
C22_Witness ==
    /\ num_matches = 1
    /\ match[2] - match[1] = Len(query) + 1
    /\ LET steps == IsMatchSteps(text, query, page_stop, match[1], 0, 0)
       IN /\ IsMatch(text, query, match[1], page_stop).ok
          /\ \E k \in 1..Len(steps) : steps[k].step = "skip"
          /\ steps[1].step = "advance" /\ steps[Len(steps)].step = "advance"

(***************************************************************************)
(* C24: GetTextBounds(start, stop) emits one rectangle for each maximal    *)
(* run of characters of [start, stop) that ends at a line-break character  *)
(* or at stop and holds a non-degenerate glyph box, the rectangle being    *)
(* the union of the non-degenerate glyph boxes of the run (in device       *)
(* space); k line breaks in the range give at most k + 1 rectangles, and   *)
(* the count returned is the number of rectangles appended.                *)
(***************************************************************************)
C24_Ends(start_index, stop_index) ==
    {i \in start_index..(stop_index - 1) :
        IsLineBreak(GetUnicode(text, i)) \/ i = stop_index - 1}

C24_Glyphs(start_index, stop_index, end) ==
    {k \in start_index..end :
        /\ \A e \in C24_Ends(start_index, stop_index) : e < end => e < k
        /\ char_boxes[k + 1].x1 # char_boxes[k + 1].x2
        /\ char_boxes[k + 1].y1 # char_boxes[k + 1].y2}

C24_Least(S) == CHOOSE v \in S : \A w \in S : v <= w
C24_Most(S) == CHOOSE v \in S : \A w \in S : v >= w

C24_RunRect(glyphs) ==
    ApplyPageTransform(DoubleRect(C24_Least({char_boxes[k + 1].x1 : k \in glyphs}),
                                  C24_Least({char_boxes[k + 1].y1 : k \in glyphs}),
                                  C24_Most({char_boxes[k + 1].x2 : k \in glyphs}),
                                  C24_Most({char_boxes[k + 1].y2 : k \in glyphs})))

C24_Expected(start_index, stop_index) ==
    LET producing == {e \in C24_Ends(start_index, stop_index) :
                         C24_Glyphs(start_index, stop_index, e) # {}}
        nth(k) == CHOOSE e \in producing :
                      Cardinality({e2 \in producing : e2 < e}) = k - 1
    IN [k \in 1..Cardinality(producing) |->
           C24_RunRect(C24_Glyphs(start_index, stop_index, nth(k)))]

C24_OneRectPerLine ==
    [][ last'.op = "GetTextBounds" =>
            \A stop_index \in 0..Len(text), given \in GivenRects :
                GetTextBounds(last'.index, stop_index, given) =>
                    /\ rects' = given \o C24_Expected(last'.index, stop_index)
                    /\ last'.ret = Len(rects') - Len(given)
                    /\ last'.ret <= 1 + Cardinality({i \in last'.index..(stop_index - 1) :
                                                       IsLineBreak(GetUnicode(text, i))}) ]_vars

\* GetTextBounds has returned two rectangles, of two lines, for a range of
\* two letters around one line feed.
C24_Witness ==
    /\ last.op = "GetTextBounds" /\ last.index = 0 /\ last.ret = 2
    /\ text = <<97, 10, 97>>
    /\ char_boxes = <<GlyphBox(0, 1, 2, 3), GlyphBox(0, 0, 0, 0), GlyphBox(0, 1, 0, 1)>>
    /\ Len(rects) = 2
    /\ rects[1].bottom <= rects[2].top

(***************************************************************************)
(* C23: BoundsOfMatchesUtf8 returns the number of matches whose bounds     *)
(* hold at least one rectangle, at most the count FindMatchesUtf8 returns  *)
(* for the query; match_to_rect and char_indexes get one entry for each    *)
(* such match, in match order: the position, among the rectangles of this  *)
(* call, of the first rectangle of the match (strictly increasing) and the *)
(* start index of the match; a match without rectangles gets no entry.     *)
(***************************************************************************)
C23_RectsOf(found, i) == C24_Expected(found[i][1], found[i][2])

C23_Entries(found, given) ==
    LET with == {i \in 1..Len(found) : C23_RectsOf(found, i) # <<>>}
        nth(k) == CHOOSE i \in with : Cardinality({j \in with : j < i}) = k - 1
    IN /\ last'.ret = Cardinality(with)
       /\ last'.ret <= Len(found)
       /\ Len(match_to_rect') = last'.ret
       /\ Len(char_indexes') = last'.ret
       /\ \A k \in 1..Cardinality(with) :
             /\ char_indexes'[k] = found[nth(k)][1]
             /\ match_to_rect'[k] >= 0
             /\ k > 1 => match_to_rect'[k] > match_to_rect'[k - 1]
             /\ \A n \in 1..Len(C23_RectsOf(found, nth(k))) :
                   rects'[Len(given) + match_to_rect'[k] + n] = C23_RectsOf(found, nth(k))[n]
       /\ Len(rects') = Len(given)
             + (IF with = {} THEN 0
                ELSE match_to_rect'[last'.ret]
                       + Len(C23_RectsOf(found, nth(Cardinality(with)))))

C23_OneEntryPerBoundedMatch ==
    [][ last'.op = "BoundsOfMatchesUtf8" =>
            \A q \in BoundsQueries, given \in GivenRects :
                BoundsOfMatchesUtf8(q, given) =>
                    C23_Entries(FindMatchesLoop(text, q, first_printable_char_index_',
                                                last_printable_char_index_' + 1),
                                given) ]_vars

\* The letter was found three times, the second time without a glyph box:
\* two matches are returned, with the rectangles at 0 and 1 of this call,
\* behind the rectangle the vector held, and the start indices 0 and 2.
C23_Witness ==
    /\ last.op = "BoundsOfMatchesUtf8" /\ last.ret = 2
    /\ text = <<97, 97, 97>>
    /\ char_boxes[2] = GlyphBox(0, 0, 0, 0)
    /\ Len(rects) = 3
    /\ match_to_rect = <<0, 1>>
    /\ char_indexes = <<0, 2>>

(***************************************************************************)
(* C25: after a successful load of the text page with n = NumChars(), the  *)
(* first printable index is the smallest index whose character is no word  *)
(* break (n if every character is one), the last printable index is the    *)
(* largest index >= the first whose character is no word break (the first  *)
(* minus 1 if there is none), and 0 <= first <= last + 1 <= n.             *)
(***************************************************************************)
C25_Printable == {i \in 0..(Len(text) - 1) : ~IsWordBreak(GetUnicode(text, i))}

C25_Range ==
    text_page_ =>
        /\ first_printable_char_index_ =
              IF C25_Printable = {} THEN Len(text)
              ELSE CHOOSE i \in C25_Printable : \A j \in C25_Printable : i <= j
        /\ last_printable_char_index_ =
              IF \E i \in C25_Printable : i >= first_printable_char_index_
                 THEN CHOOSE i \in C25_Printable : \A j \in C25_Printable : i >= j
                 ELSE first_printable_char_index_ - 1
        /\ 0 <= first_printable_char_index_
        /\ first_printable_char_index_ <= last_printable_char_index_ + 1
        /\ last_printable_char_index_ + 1 <= Len(text)

C25_PrintableRange ==
    /\ []C25_Range
    /\ [][ text_page_' =>
              /\ last'.op = "NumChars" => last'.ret = Len(text)
              /\ last'.op = "first_printable_char_index" =>
                    last'.ret = first_printable_char_index_'
              /\ last'.op = "last_printable_char_index" =>
                    last'.ret = last_printable_char_index_' ]_vars

\* The last printable index has been asked for on a text of two spaces: the
\* range is empty, first = 2 and last = 1.
C25_Witness ==
    /\ text_page_
    /\ last.op = "last_printable_char_index" /\ last.ret = 1
    /\ text = <<32, 32>>
    /\ first_printable_char_index_ = 2

(***************************************************************************)
(* C26: after ConstrainBoundary the index of the boundary lies in          *)
(* [first_printable_char_index, last_printable_char_index + 1]: a boundary *)
(* given with an index (>= 0) has that index clamped into the range and is *)
(* the one GetBoundaryAtIndex gives for it, and a boundary given without   *)
(* an index (< 0) is resolved to an index of that range.                   *)
(***************************************************************************)
C26_Clamped(index, first, last_printable) ==
    IF index < first THEN first
    ELSE IF index > last_printable + 1 THEN last_printable + 1 ELSE index

\* The part of the claim on a boundary given with an index.
C26_GivenIndexIsClamped ==
    [][ last'.op = "ConstrainBoundary" /\ boundary_given'.index >= 0 =>
          /\ boundary_out'.index = C26_Clamped(boundary_given'.index, first_printable_char_index_',
                                                  last_printable_char_index_')
          /\ boundary_out'.index >= first_printable_char_index_'
          /\ boundary_out'.index <= last_printable_char_index_' + 1
          /\ boundary_out' \in
                BoundaryAtIndex(text, char_boxes, char_origins, boundary_out'.index) ]_vars

C26_IndexInPrintableRange ==
    [][ last'.op = "ConstrainBoundary" =>
          /\ boundary_out'.index >= first_printable_char_index_'
          /\ boundary_out'.index <= last_printable_char_index_' + 1
          /\ boundary_given'.index >= 0 =>
                /\ boundary_out'.index = C26_Clamped(boundary_given'.index, first_printable_char_index_',
                                                  last_printable_char_index_')
                /\ boundary_out' \in BoundaryAtIndex(text, char_boxes, char_origins,
                                                     boundary_out'.index) ]_vars

(***************************************************************************)
(* C27: GetBoundaryAtIndex(index) returns a boundary of that index whose   *)
(* is-RTL flag is true exactly when the enclosing word has at least two    *)
(* characters and the horizontal centre of the box of its first character  *)
(* lies right of that of its last; it is anchored on the previous          *)
(* character, at its trailing edge, when index = NumChars() or the         *)
(* character at index is a word break, and else on the character at index, *)
(* at its leading edge: x is the right edge of the box of the anchoring    *)
(* character exactly when (use-end-edge XOR is-RTL), and y is the y of its *)
(* baseline origin.                                                        *)
(***************************************************************************)
C27_IsWordChar(k) == k >= 0 /\ k < Len(text) /\ ~IsWordBreak(text[k + 1])

\* The word around index: from the first of the word characters that run up
\* to index to the last of those that run on from it.
C27_WordStart(index) ==
    CHOOSE s \in 0..index :
        /\ \A k \in s..(index - 1) : C27_IsWordChar(k)
        /\ ~C27_IsWordChar(s - 1)

C27_WordStop(index) ==
    CHOOSE e \in index..Len(text) :
        /\ \A k \in index..(e - 1) : C27_IsWordChar(k)
        /\ ~C27_IsWordChar(e)

\* The box of character k on the device.
C27_Box(k) ==
    LET box == char_boxes[k + 1]
        corner1 == [x |-> box.x1, y |-> PageHeight - box.y1]
        corner2 == [x |-> box.x2, y |-> PageHeight - box.y2]
    IN Intersect(IntRectOfPoints(corner1, corner2), IntRect(0, 0, PageWidth, PageHeight))

C27_CentreX(k) == (C27_Box(k).left + C27_Box(k).right) \div 2

C27_IsRtl(index) ==
    /\ C27_WordStop(index) - C27_WordStart(index) >= 2
    /\ C27_CentreX(C27_WordStart(index)) > C27_CentreX(C27_WordStop(index) - 1)

C27_Expected(b, index) ==
    LET use_end_edge == index = Len(text) \/ ~C27_IsWordChar(index)
        anchor == IF use_end_edge THEN index - 1 ELSE index
    IN /\ b.index = index
       /\ b.is_rtl = C27_IsRtl(index)
       /\ anchor >= 0 =>
             /\ b.point.x = IF use_end_edge # b.is_rtl
                                THEN C27_Box(anchor).right ELSE C27_Box(anchor).left
             /\ b.point.y = PageHeight - char_origins[anchor + 1].y

C27_BoundaryAtIndex ==
    [][ last'.op = "GetBoundaryAtIndex" => C27_Expected(boundary_out', last'.index) ]_vars

\* The boundary at the end of a word of two characters that runs from right
\* to left: it is at the left edge of the last character.
C27_Witness ==
    /\ last.op = "GetBoundaryAtIndex" /\ last.index = 2
    /\ text = <<97, 97>>
    /\ char_boxes = <<GlyphBox(1, 2, 2, 3), GlyphBox(0, 1, 2, 3)>>
    /\ boundary_out = Boundary(2, 0, 1, TRUE)

(***************************************************************************)
(* C28: on a page with at least one printable character,                   *)
(* GetBoundaryAtPoint(point) returns the boundary that is nearest to the   *)
(* point (least squared distance, the lowest index among equals) of those  *)
(* at the indices in [first_printable_char_index,                          *)
(* last_printable_char_index + 1] next to a word character, and that       *)
(* boundary is the one GetBoundaryAtIndex gives for its index, although    *)
(* the direction is worked out at the start of each word only.             *)
(***************************************************************************)
C28_Candidates(first, last_printable) ==
    {i \in first..(last_printable + 1) :
        C27_IsWordChar(i) \/ C27_IsWordChar(i - 1)}

C28_DistanceSq(b, point) ==
    (b.point.x - point.x) * (b.point.x - point.x)
        + (b.point.y - point.y) * (b.point.y - point.y)

C28_Nearest(b, point, first, last_printable) ==
    /\ b.index \in C28_Candidates(first, last_printable)
    /\ BoundaryAtIndex(text, char_boxes, char_origins, b.index) = {b}
    /\ C27_Expected(b, b.index)
    /\ \A i \in C28_Candidates(first, last_printable) :
          \A c \in BoundaryAtIndex(text, char_boxes, char_origins, i) :
              \/ C28_DistanceSq(b, point) < C28_DistanceSq(c, point)
              \/ C28_DistanceSq(b, point) = C28_DistanceSq(c, point) /\ b.index <= i

C28_NearestBoundary ==
    [][ /\ last'.op = "GetBoundaryAtPoint"
        /\ first_printable_char_index_' <= last_printable_char_index_'
        => C28_Nearest(boundary_out', boundary_given'.point,
                       first_printable_char_index_', last_printable_char_index_') ]_vars

\* The point is at the end of a word that runs from right to left, where
\* the direction is the one worked out at the start of the word: "aa" with
\* the first character at the right, the point (0, 1) at the left edge of
\* the second.
C28_Witness ==
    /\ last.op = "GetBoundaryAtPoint"
    /\ text = <<97, 97>>
    /\ char_boxes = <<GlyphBox(1, 2, 2, 3), GlyphBox(0, 1, 2, 3)>>
    /\ boundary_given.point = [x |-> 0, y |-> 1]
    /\ boundary_out = Boundary(2, 0, 1, TRUE)

(***************************************************************************)
(* C29: after any sequence of GetPageObjects, AddPageObject,               *)
(* RemovePageObject and UpdatePageObject calls, successful or failed, the  *)
(* page-object cache is empty or has as many slots as the backing page has *)
(* page objects, so that an index of the backing page is an index of a     *)
(* populated cache.                                                        *)
(***************************************************************************)
C29_CacheIsEmptyOrFull ==
    /\ page_objects_ = <<>> \/ Len(page_objects_) = Len(fpdf_objects)
    /\ page_objects_ # <<>> =>
          \A index \in 0..(Len(fpdf_objects) - 1) : index + 1 \in DOMAIN page_objects_

\* An object has been removed from a populated cache of two slots: the null
\* slot of the object that does not populate is the one left.
C29_Witness ==
    /\ last.op = "RemovePageObject" /\ last.ok
    /\ Len(page_objects_) = 1 /\ Len(fpdf_objects) = 1
    /\ page_objects_[1] = Null

(***************************************************************************)
(* C30: whenever FindMatch(query, start, stop) calls IsMatch, every page   *)
(* character IsMatch reads has an index in [match_start, stop): at each    *)
(* pass of its loop the page characters left before stop are at least as   *)
(* many as the query characters left, so that a reported match has         *)
(* match_start < match.second <= stop and nothing at or after stop is      *)
(* read.                                                                   *)
(***************************************************************************)
C30_PassInRange(m, pass) ==
    /\ m <= pass.page_index /\ pass.page_index < page_stop
    /\ page_stop - pass.page_index >= Len(query) - pass.query_index

C30_ReadsStayBeforeStop ==
    /\ \A m \in FindMatchCalls(text, query, page_start, page_stop) :
          LET steps == IsMatchSteps(text, query, page_stop, m, 0, 0)
              result == IsMatch(text, query, m, page_stop)
          IN /\ m >= page_start /\ m <= page_stop - Len(query)
             /\ \A k \in 1..Len(steps) : C30_PassInRange(m, steps[k])
             /\ result.ok =>
                   /\ result.first = m
                   /\ m < result.second /\ result.second <= page_stop
    /\ num_matches > 0 => match[1] < match[2] /\ match[2] <= page_stop

\* FindMatchesUtf8 has found a match that ends at page_stop and in which
\* IsMatch skipped an accent with just enough room left.
C30_Witness ==
    /\ num_matches = 1
    /\ match[2] = page_stop
    /\ LET steps == IsMatchSteps(text, query, page_stop, match[1], 0, 0)
       IN \E k \in 1..Len(steps) :
              /\ steps[k].step = "skip"
              /\ page_stop - (steps[k].page_index + 1) = Len(query) - steps[k].query_index

====
